---- MODULE Spec2Model ----
(***************************************************************************)
(* XMODEM engine of lib/xmodem/src/lib.rs: Xmodem::transmit_with_progress  *)
(* and Xmodem::receive_with_progress driving the two ends of a duplex byte *)
(* stream.  One action per transport call (write_byte, write_all,          *)
(* read_byte, read_exact) or local step of the two functions.              *)
(***************************************************************************)
EXTENDS Integers, Sequences, FiniteSets, TLC

\* ----------------------------------------------------------------- bounds
\* longest payload of the general specification, in bytes
MaxLen == 256
\* bytes the transport may corrupt in one run of the general specification
MaxFaults == 1
\* corrupted checksum bytes allowed in a run of the retry specification
RetryFaults == 10
\* faults of the transfers whose payload and checksum bytes are corrupted
LockFaults == 3
\* corrupted checksum bytes of the transfers that spend 9 attempts on each of
\* their two packets
AttemptFaults == 18
\* packets of the payload of the wrap specification
WrapPackets == 257

\* longest buffer handed to MiniUart::read
MaxBuf == 3
\* bytes the line delivers during one call of MiniUart::read
MaxArrivals == 4
\* ticks of the timer during one call of MiniUart::read
MaxTime == 4

\* largest slice a StackVec is built on
MaxCap == 3

\* lines the user of the shell types in a run
MaxLines == 2

\* ------------------------------------------------------ program constants
SOH == 1
EOT == 4
ACK == 6
NAK == 21
CAN == 24
\* let mut packet = [0u8; 128]
PacketSize == 128
\* for _ in 0..10 of receive_with_progress
RxAttempts == 10
\* a loop that allows one attempt too many
TxAttemptsOneMore == 10 + 1

\* for _ in 0..10 of transmit_with_progress
TxAttempts == 10
\* u8
Byte == 256
\* let mut input_buf = [0u8; 512]
InputCap == 512
\* let mut args_buf = [""; 64]
ArgsCap == 64
\* byte == 8 || byte == 127, b'\n', b'\r', ' '
Backspace == 8
Delete == 127
Newline == 10
Return == 13
Space == 32

\* ------------------------------------------------------- pure functions
\* a.wrapping_add(*b)
WrappingAdd(a, b) == (a + b) % Byte

\* the left fold of WrappingAdd over buf[lo..hi] from acc, the bytes taken in
\* order.  The range is split in two and the fold of the left half is a value
\* (the one element of a set) before the fold of the right half starts from
\* it, so that the evaluation nests only to the logarithm of the length and
\* no half is folded twice
RECURSIVE Fold(_, _, _, _)
Fold(acc, buf, lo, hi) ==
  IF lo > hi THEN acc
  ELSE IF lo = hi THEN WrappingAdd(acc, buf[lo])
  ELSE CHOOSE r \in {Fold(left, buf, (lo + hi) \div 2 + 1, hi) :
                       left \in {Fold(acc, buf, lo, (lo + hi) \div 2)}} : TRUE

\* buf.iter().fold(0, |a, b| a.wrapping_add(*b))
get_checksum(buf) == Fold(0, buf, 1, Len(buf))

\* the negation -n on a u8 in the place of the bitwise !n
Negation(n) == (Byte - n) % Byte

\* !self.packet on a u8
Complement(n) == (Byte - 1) - n

\* an increment that stops at 255 instead of wrapping
SaturatingAdd1(n) == IF n = Byte - 1 THEN n ELSE n + 1

\* self.packet.wrapping_add(1)
WrappingAdd1(n) == WrappingAdd(n, 1)

Min(a, b) == IF a < b THEN a ELSE b

\* the data source: byte i (1-based) of the payload named by its first byte
PayloadByte(base, i) == (base + (i - 1)) % Byte
Payload(base, len) == [i \in 1..len |-> PayloadByte(base, i)]

\* data.read_max(&mut packet): fills packet[..n] with the next n bytes of the
\* source, n = min(128, bytes left), and leaves packet[n..] as it was
ReadMaxCount(len, pos) == Min(PacketSize, len - pos)
ReadMax(buf, base, len, pos) ==
  [i \in 1..PacketSize |->
     IF i <= ReadMaxCount(len, pos) THEN PayloadByte(base, pos + i) ELSE buf[i]]

\* the buffer left as read_max filled it, the rest not cleared
ZeroFromNothing(buf, n) == buf

\* packet[n..].iter_mut().for_each(|b| *b = 0)
ZeroFrom(buf, n) == [i \in 1..PacketSize |-> IF i > n THEN 0 ELSE buf[i]]

ZeroPacket == [i \in 1..PacketSize |-> 0]

\* ------------------------------------------------------------ the state
VARIABLES
  base, plen,      \* the payload handed to transmit (constant in a run)
  sinkKeeps,       \* TRUE: the receiver's writer keeps what it is given
  logging,         \* TRUE: the run keeps the two logs
  budget,          \* bytes the transport may corrupt in this run (constant)
  ckOnly,          \* TRUE: the transport corrupts checksum bytes only
  dataFaults,      \* TRUE: the transport corrupts payload bytes as well
  injected,        \* bytes the transport has corrupted so far
  t2r, r2t,        \* bytes in flight: transmitter to receiver, and back
  tPc, tPacket, tStarted, tBuf, tN, tWritten, tTries, tPos, tRes, tLog,
  rPc, rPacket, rStarted, rBuf, rNum, rReceived, rTries, rRes, rLog, sink

\* MiniUart::read and the hardware under it (pi/src/uart.rs)
VARIABLES
  uPc,             \* the place of the call in read / wait_for_byte / read_byte
  uLen,            \* buf.len() of the call
  uTimeout,        \* self.timeout: [some |-> FALSE] or [some |-> TRUE, t |-> ..]
  uStart,          \* start of wait_for_byte
  uNow,            \* the timer
  uFifo,           \* the receive FIFO; LSR's DataReady bit is uFifo # <<>>
  uArrivals,       \* bytes that have come in from the line so far
  uCount, uBuf,    \* count and buf[..count] of read
  uRes,            \* the result of read
  uPolled,         \* TRUE: the call has evaluated has_byte
  uLastReady,      \* what the latest has_byte returned
  uChecked         \* the time passed that the latest timer test found (-1: none)

uartVars == <<uPc, uLen, uTimeout, uStart, uNow, uFifo, uArrivals, uCount, uBuf,
              uRes, uPolled, uLastReady, uChecked>>

\* a StackVec (stack-vec/src/lib.rs) and the latest call on it
VARIABLES
  svStorage,       \* self.storage; its length is the capacity
  svLen,           \* self.len
  svOp,            \* the latest call: its name and argument, ok: it returned
                   \* Ok or Some, val: the value in Some
  svPrev           \* storage and len before the latest call

stackVars == <<svStorage, svLen, svOp, svPrev>>

\* the kernel shell (kern/src/shell.rs) and its console
VARIABLES
  shPc,            \* the place in shell's loop
  shKeys,          \* the bytes the user still types for the line in hand
  shInput,         \* input_buf[..input_len]
  shOut,           \* what the latest command printed
  shPath,          \* the path of the latest command parsed (<<>>: none yet)
  shLines          \* lines entered so far

shellVars == <<shPc, shKeys, shInput, shOut, shPath, shLines>>

\* the components a step of a transfer does not touch
others == <<uartVars, stackVars, shellVars>>

\* what a step of a transfer leaves as it is: the arguments of the two calls
\* and the other components
envVars == <<base, plen, sinkKeeps, logging, budget, ckOnly, dataFaults, others>>
txVars == <<tPc, tPacket, tStarted, tBuf, tN, tWritten, tTries, tPos, tRes, tLog>>
rxVars == <<rPc, rPacket, rStarted, rBuf, rNum, rReceived, rTries, rRes, rLog, sink>>
xmodemVars == <<base, plen, sinkKeeps, logging, budget, ckOnly, dataFaults,
                injected, t2r, r2t, txVars, rxVars>>
vars == <<envVars, injected, t2r, r2t, txVars, rxVars>>

\* what a step of one component leaves as it is
notUart == <<xmodemVars, stackVars, shellVars>>
notStack == <<xmodemVars, uartVars, shellVars>>
notShell == <<xmodemVars, uartVars, stackVars>>

\* one entry of a side's log, in program order: a transport write or read of
\* one byte ("w", "r") or of a 128-byte block ("wb", "rb"), a progress callback
\* ("Waiting", "Started", "Packet" with its number) or a write to the sink
\* ("sink"), with the place of the code that made it
Ev(place, o, x) == [at |-> place, op |-> o, v |-> x]

\* a log with new entries, when the run keeps logs
Log(log, entries) == IF logging THEN log \o entries ELSE log

\* into.write_all(&packet) for the two writers a caller may pass: one that
\* keeps the bytes (a Vec<u8>) and one that drops them (io::sink())
SinkWrite(s, packet) == IF sinkKeeps THEN s \o packet ELSE s

Last(s) == s[Len(s)]

\* --------------------------------------------------------- the transport
\* values a corrupted byte may take
FaultBytes == {SOH, EOT, ACK, NAK, CAN, 0}

Corrupted(b) == IF ckOnly THEN {(b + 1) % Byte} ELSE FaultBytes \ {b}

\* what self.inner.read_exact(&mut [0u8; 1]) may return when b is the next byte
\* in flight: b, or another byte while the transport may still corrupt one
Arrive(b, isChecksum) ==
  {b} \cup (IF injected < budget /\ (~ckOnly \/ isChecksum) THEN Corrupted(b) ELSE {})

\* what self.inner.read_exact(&mut buf[..128]) may return for the block blk
ArriveBlock(blk) ==
  {blk} \cup (IF injected < budget /\ (~ckOnly \/ dataFaults)
              THEN {[blk EXCEPT ![1] = f] : f \in Corrupted(blk[1])}
              ELSE {})

Charge(sent, got) == IF sent = got THEN injected ELSE injected + 1

\* ----------------------------------------------------------- transmitter
\* return Err(e) / return ioerr!(..) of transmit_with_progress
TxReturn(res) ==
  /\ tRes' = res
  /\ tPc' = "done"

\* TxReadMax ending an empty source with EOT at once, the handshake skipped
TxReadMaxEarlyEot ==
  /\ tPc = "read"
  /\ LET n == ReadMaxCount(plen, tPos)
     IN /\ tN' = n
        /\ tBuf' = ZeroFrom(ReadMax(tBuf, base, plen, tPos), n)
        /\ tPos' = tPos + n
        /\ tTries' = 0
        /\ tPc' = IF n = 0 THEN "eot1" ELSE IF ~tStarted THEN "wait" ELSE "soh"
  /\ UNCHANGED <<tPacket, tStarted, tWritten, tRes, tLog>>
  /\ UNCHANGED <<envVars, injected, t2r, r2t, rxVars>>

\* let n = data.read_max(&mut packet)?; packet[n..] = 0;
\* if n == 0 { transmitter.write_packet(&[])?; return Ok(written) }
\* for _ in 0..10 { transmitter.write_packet(&packet) ... }
TxReadMax ==
  /\ tPc = "read"
  /\ LET n == ReadMaxCount(plen, tPos)
     IN /\ tN' = n
        /\ tBuf' = ZeroFrom(ReadMax(tBuf, base, plen, tPos), n)
        /\ tPos' = tPos + n
        /\ tTries' = 0
        /\ tPc' = IF ~tStarted THEN "wait" ELSE IF n = 0 THEN "eot1" ELSE "soh"
  /\ UNCHANGED <<tPacket, tStarted, tWritten, tRes, tLog>>
  /\ UNCHANGED <<envVars, injected, t2r, r2t, rxVars>>

\* write_packet: if !self.started { (self.progress)(Progress::Waiting); ...
TxWaiting ==
  /\ tPc = "wait"
  /\ tLog' = Log(tLog, <<Ev(tPc, "Waiting", 0)>>)
  /\ tPc' = "hs"
  /\ UNCHANGED <<tPacket, tStarted, tBuf, tN, tWritten, tTries, tPos, tRes>>
  /\ UNCHANGED <<envVars, injected, t2r, r2t, rxVars>>

\* ExpectByte without the arm for CAN
ExpectByteNoCan(received, byte) ==
  IF received = byte THEN "Ok" ELSE "InvalidData"

\* the outcome of expect_byte(byte, ..) on the received byte
ExpectByte(received, byte) ==
  IF received = byte THEN "Ok"
  ELSE IF received = CAN THEN "ConnectionAborted"
  ELSE "InvalidData"

\* self.expect_byte(NAK, "expected NAK to start transmission")?;
\* self.started = true; (self.progress)(Progress::Started);
TxHandshake ==
  /\ tPc = "hs"
  /\ r2t # <<>>
  /\ \E b \in Arrive(Head(r2t), FALSE) :
       /\ injected' = Charge(Head(r2t), b)
       /\ r2t' = Tail(r2t)
       /\ IF ExpectByte(b, NAK) = "Ok"
          THEN /\ tStarted' = TRUE
               /\ tLog' = Log(tLog, <<Ev(tPc, "r", b), Ev(tPc, "Started", 0)>>)
               /\ tPc' = IF tN = 0 THEN "eot1" ELSE "soh"
               /\ tRes' = tRes
          ELSE /\ tStarted' = tStarted
               /\ tLog' = Log(tLog, <<Ev(tPc, "r", b)>>)
               /\ TxReturn(ExpectByte(b, NAK))
  /\ UNCHANGED <<tPacket, tBuf, tN, tWritten, tTries, tPos>>
  /\ UNCHANGED <<envVars, t2r, rxVars>>

\* self.write_byte(byte) of the transmitter: one byte put in flight
TxWriteByte(b, next) ==
  /\ t2r' = Append(t2r, b)
  /\ tLog' = Log(tLog, <<Ev(tPc, "w", b)>>)
  /\ tPc' = next
  /\ UNCHANGED <<tPacket, tStarted, tBuf, tN, tWritten, tTries, tPos, tRes>>
  /\ UNCHANGED <<envVars, injected, r2t, rxVars>>

\* self.write_byte(EOT)?;
TxEot1 ==
  /\ tPc = "eot1"
  /\ TxWriteByte(EOT, "eot1r")

\* TxEot1Reply sending EOT again, up to the bound of attempts, when the
\* reply is neither NAK nor CAN
TxEot1ReplyRetry ==
  /\ tPc = "eot1r"
  /\ r2t # <<>>
  /\ \E b \in Arrive(Head(r2t), FALSE) :
       /\ injected' = Charge(Head(r2t), b)
       /\ r2t' = Tail(r2t)
       /\ tLog' = Log(tLog, <<Ev(tPc, "r", b)>>)
       /\ IF ExpectByte(b, NAK) = "Ok"
          THEN tPc' = "eot2" /\ tRes' = tRes /\ tTries' = tTries
          ELSE IF ExpectByte(b, NAK) = "ConnectionAborted"
          THEN TxReturn("ConnectionAborted") /\ tTries' = tTries
          ELSE /\ tTries' = tTries + 1
               /\ IF tTries + 1 < TxAttempts
                  THEN tPc' = "eot1" /\ tRes' = tRes
                  ELSE TxReturn("BrokenPipe")
  /\ UNCHANGED <<tPacket, tStarted, tBuf, tN, tWritten, tPos>>
  /\ UNCHANGED <<envVars, t2r, rxVars>>

\* self.expect_byte(NAK, "expected NAK after first EOT")?;
TxEot1Reply ==
  /\ tPc = "eot1r"
  /\ r2t # <<>>
  /\ \E b \in Arrive(Head(r2t), FALSE) :
       /\ injected' = Charge(Head(r2t), b)
       /\ r2t' = Tail(r2t)
       /\ tLog' = Log(tLog, <<Ev(tPc, "r", b)>>)
       /\ IF ExpectByte(b, NAK) = "Ok"
          THEN tPc' = "eot2" /\ tRes' = tRes
          ELSE TxReturn(ExpectByte(b, NAK))
  /\ UNCHANGED <<tPacket, tStarted, tBuf, tN, tWritten, tTries, tPos>>
  /\ UNCHANGED <<envVars, t2r, rxVars>>

\* self.write_byte(EOT)?;
TxEot2 ==
  /\ tPc = "eot2"
  /\ TxWriteByte(EOT, "eot2r")

\* self.expect_byte(ACK, "expected ACK after second EOT")?; return Ok(0);
\* and, in transmit_with_progress, return Ok(written)
TxEot2Reply ==
  /\ tPc = "eot2r"
  /\ r2t # <<>>
  /\ \E b \in Arrive(Head(r2t), FALSE) :
       /\ injected' = Charge(Head(r2t), b)
       /\ r2t' = Tail(r2t)
       /\ tLog' = Log(tLog, <<Ev(tPc, "r", b)>>)
       /\ TxReturn(ExpectByte(b, ACK))
  /\ UNCHANGED <<tPacket, tStarted, tBuf, tN, tWritten, tTries, tPos>>
  /\ UNCHANGED <<envVars, t2r, rxVars>>

\* self.write_byte(SOH)?;
TxSoh ==
  /\ tPc = "soh"
  /\ TxWriteByte(SOH, "seq")

\* self.write_byte(self.packet)?;
TxSeq ==
  /\ tPc = "seq"
  /\ TxWriteByte(tPacket, "neg")

\* self.write_byte(!self.packet)?;
TxNeg ==
  /\ tPc = "neg"
  /\ TxWriteByte(Complement(tPacket), "data")

\* TxData writing only the bytes read from the source, a short packet
TxDataShort ==
  /\ tPc = "data"
  /\ t2r' = t2r \o SubSeq(tBuf, 1, tN)
  /\ tLog' = Log(tLog, <<Ev(tPc, "wb", SubSeq(tBuf, 1, tN))>>)
  /\ tPc' = "cksum"
  /\ UNCHANGED <<tPacket, tStarted, tBuf, tN, tWritten, tTries, tPos, tRes>>
  /\ UNCHANGED <<envVars, injected, r2t, rxVars>>

\* self.inner.write_all(buf)?;
TxData ==
  /\ tPc = "data"
  /\ t2r' = t2r \o tBuf
  /\ tLog' = Log(tLog, <<Ev(tPc, "wb", tBuf)>>)
  /\ tPc' = "cksum"
  /\ UNCHANGED <<tPacket, tStarted, tBuf, tN, tWritten, tTries, tPos, tRes>>
  /\ UNCHANGED <<envVars, injected, r2t, rxVars>>

\* self.write_byte(get_checksum(buf))?;
TxCksum ==
  /\ tPc = "cksum"
  /\ TxWriteByte(get_checksum(tBuf), "reply")

\* ReplyOutcome with the NAK arm missing: NAK falls into the catch-all arm
ReplyOutcomeNoNak(b) ==
  IF b = ACK THEN "Ok"
  ELSE IF b = CAN THEN "ConnectionAborted"
  ELSE "InvalidData"

\* the outcome of write_packet's match self.read_byte(false)? { .. }
ReplyOutcome(b) ==
  IF b = ACK THEN "Ok"
  ELSE IF b = NAK THEN "Interrupted"
  ELSE IF b = CAN THEN "ConnectionAborted"
  ELSE "InvalidData"

\* TxReply advancing the sequence counter in the NAK arm too
TxReplyNakAdvances ==
  /\ tPc = "reply"
  /\ r2t # <<>>
  /\ \E b \in Arrive(Head(r2t), FALSE) :
       /\ injected' = Charge(Head(r2t), b)
       /\ r2t' = Tail(r2t)
       /\ CASE ReplyOutcome(b) = "Ok" ->
                 /\ tPacket' = WrappingAdd1(tPacket)
                 /\ tLog' = Log(tLog, <<Ev(tPc, "r", b), Ev(tPc, "Packet", WrappingAdd1(tPacket))>>)
                 /\ tWritten' = tWritten + tN
                 /\ tPc' = "read"
                 /\ UNCHANGED <<tTries, tRes>>
            [] ReplyOutcome(b) = "Interrupted" ->
                 /\ tLog' = Log(tLog, <<Ev(tPc, "r", b)>>)
                 /\ tTries' = tTries + 1
                 /\ tPacket' = WrappingAdd1(tPacket)
                 /\ IF tTries + 1 < TxAttempts
                    THEN tPc' = "soh" /\ tRes' = tRes
                    ELSE TxReturn("BrokenPipe")
                 /\ UNCHANGED tWritten
            [] OTHER ->
                 /\ tLog' = Log(tLog, <<Ev(tPc, "r", b)>>)
                 /\ TxReturn(ReplyOutcome(b))
                 /\ UNCHANGED <<tPacket, tWritten, tTries>>
  /\ UNCHANGED <<tStarted, tBuf, tN, tPos>>
  /\ UNCHANGED <<envVars, t2r, rxVars>>

\* match self.read_byte(false)? { ACK => .., NAK => .., CAN => .., _ => .. } and
\* the arm of transmit_with_progress's match that its result selects
TxReply ==
  /\ tPc = "reply"
  /\ r2t # <<>>
  /\ \E b \in Arrive(Head(r2t), FALSE) :
       /\ injected' = Charge(Head(r2t), b)
       /\ r2t' = Tail(r2t)
       /\ CASE ReplyOutcome(b) = "Ok" ->
                 /\ tPacket' = WrappingAdd1(tPacket)
                 /\ tLog' = Log(tLog, <<Ev(tPc, "r", b), Ev(tPc, "Packet", WrappingAdd1(tPacket))>>)
                 /\ tWritten' = tWritten + tN
                 /\ tPc' = "read"
                 /\ UNCHANGED <<tTries, tRes>>
            [] ReplyOutcome(b) = "Interrupted" ->
                 /\ tLog' = Log(tLog, <<Ev(tPc, "r", b)>>)
                 /\ tTries' = tTries + 1
                 /\ IF tTries + 1 < TxAttempts
                    THEN tPc' = "soh" /\ tRes' = tRes
                    ELSE TxReturn("BrokenPipe")
                 /\ UNCHANGED <<tPacket, tWritten>>
            [] OTHER ->
                 /\ tLog' = Log(tLog, <<Ev(tPc, "r", b)>>)
                 /\ TxReturn(ReplyOutcome(b))
                 /\ UNCHANGED <<tPacket, tWritten, tTries>>
  /\ UNCHANGED <<tStarted, tBuf, tN, tPos>>
  /\ UNCHANGED <<envVars, t2r, rxVars>>

TxStep ==
  \/ TxReadMax \/ TxWaiting \/ TxHandshake
  \/ TxSoh \/ TxSeq \/ TxNeg \/ TxData \/ TxCksum \/ TxReply
  \/ TxEot1 \/ TxEot1Reply \/ TxEot2 \/ TxEot2Reply

\* -------------------------------------------------------------- receiver
\* return Err(e) / return ioerr!(..) / Ok(received) of receive_with_progress
RxReturn(res) ==
  /\ rRes' = res
  /\ rPc' = "done"

\* Err(ref e) if e.kind() == io::ErrorKind::Interrupted => continue, and, when
\* the for _ in 0..10 loop is used up, return ioerr!(BrokenPipe, "bad receive")
RxInterrupted ==
  /\ rTries' = rTries + 1
  /\ IF rTries + 1 < RxAttempts
     THEN rPc' = "first" /\ rRes' = rRes
     ELSE RxReturn("BrokenPipe")

\* self.write_byte(byte) of the receiver: one byte put in flight
RxWriteByte(b) ==
  /\ r2t' = Append(r2t, b)
  /\ UNCHANGED <<envVars, injected, t2r, txVars>>

\* receiver.write_byte(NAK)?;   (the NAK that starts the transfer)
RxInit ==
  /\ rPc = "init"
  /\ RxWriteByte(NAK)
  /\ rLog' = Log(rLog, <<Ev(rPc, "w", NAK)>>)
  /\ rPc' = "first"
  /\ UNCHANGED <<rPacket, rStarted, rBuf, rNum, rReceived, rTries, rRes, sink>>

\* read_packet: let byte = self.read_byte(false)?; if byte == CAN { .. }
\* match byte { SOH => { if !self.started { .. } .. }, EOT => .., _ => .. }
RxFirst ==
  /\ rPc = "first"
  /\ t2r # <<>>
  /\ \E b \in Arrive(Head(t2r), FALSE) :
       /\ injected' = Charge(Head(t2r), b)
       /\ t2r' = Tail(t2r)
       /\ CASE b = CAN ->
                 /\ rLog' = Log(rLog, <<Ev(rPc, "r", b)>>)
                 /\ RxReturn("ConnectionAborted")
                 /\ UNCHANGED rStarted
            [] b = SOH ->
                 /\ rStarted' = TRUE
                 /\ rLog' = IF rStarted THEN Log(rLog, <<Ev(rPc, "r", b)>>)
                            ELSE Log(rLog, <<Ev(rPc, "r", b), Ev(rPc, "Started", 0)>>)
                 /\ rPc' = "num"
                 /\ UNCHANGED rRes
            [] b = EOT ->
                 /\ rLog' = Log(rLog, <<Ev(rPc, "r", b)>>)
                 /\ rPc' = "eot_nak"
                 /\ UNCHANGED <<rStarted, rRes>>
            [] OTHER ->
                 /\ rLog' = Log(rLog, <<Ev(rPc, "r", b)>>)
                 /\ rPc' = "other"
                 /\ UNCHANGED <<rStarted, rRes>>
  /\ UNCHANGED <<rPacket, rBuf, rNum, rReceived, rTries, sink>>
  /\ UNCHANGED <<envVars, r2t, txVars>>

\* let packet_num = self.read_byte(false)?;
RxNum ==
  /\ rPc = "num"
  /\ t2r # <<>>
  /\ \E b \in Arrive(Head(t2r), FALSE) :
       /\ injected' = Charge(Head(t2r), b)
       /\ t2r' = Tail(t2r)
       /\ rNum' = b
       /\ rLog' = Log(rLog, <<Ev(rPc, "r", b)>>)
  /\ rPc' = "neg"
  /\ UNCHANGED <<rPacket, rStarted, rBuf, rReceived, rTries, rRes, sink>>
  /\ UNCHANGED <<envVars, r2t, txVars>>

\* if packet_num != self.packet || packet_num_neg != !self.packet
PacketNumberMismatch(packet_num, packet_num_neg, packet) ==
  packet_num # packet \/ packet_num_neg # Complement(packet)

\* let packet_num_neg = self.read_byte(false)?; and the check that follows
RxNeg ==
  /\ rPc = "neg"
  /\ t2r # <<>>
  /\ \E b \in Arrive(Head(t2r), FALSE) :
       /\ injected' = Charge(Head(t2r), b)
       /\ t2r' = Tail(t2r)
       /\ rLog' = Log(rLog, <<Ev(rPc, "r", b)>>)
       /\ rPc' = IF PacketNumberMismatch(rNum, b, rPacket) THEN "nak_num" ELSE "data"
  /\ UNCHANGED <<rPacket, rStarted, rBuf, rNum, rReceived, rTries, rRes, sink>>
  /\ UNCHANGED <<envVars, r2t, txVars>>

\* RxNakNum returning Interrupted: the mismatch counted as an attempt
RxNakNumRetry ==
  /\ rPc = "nak_num"
  /\ RxWriteByte(NAK)
  /\ rLog' = Log(rLog, <<Ev(rPc, "w", NAK)>>)
  /\ RxInterrupted
  /\ UNCHANGED <<rPacket, rStarted, rBuf, rNum, rReceived, sink>>

\* self.write_byte(NAK)?; return ioerr!(InvalidData, "packet number mismatch");
\* which receive_with_progress returns through its Err(e) => return Err(e) arm
RxNakNum ==
  /\ rPc = "nak_num"
  /\ RxWriteByte(NAK)
  /\ rLog' = Log(rLog, <<Ev(rPc, "w", NAK)>>)
  /\ RxReturn("InvalidData")
  /\ UNCHANGED <<rPacket, rStarted, rBuf, rNum, rReceived, rTries, sink>>

\* self.inner.read_exact(&mut buf[..128])?;
RxData ==
  /\ rPc = "data"
  /\ Len(t2r) >= PacketSize
  /\ \E blk \in ArriveBlock(SubSeq(t2r, 1, PacketSize)) :
       /\ injected' = Charge(SubSeq(t2r, 1, PacketSize), blk)
       /\ rBuf' = blk
       /\ rLog' = Log(rLog, <<Ev(rPc, "rb", blk)>>)
  /\ t2r' = SubSeq(t2r, PacketSize + 1, Len(t2r))
  /\ rPc' = "cksum"
  /\ UNCHANGED <<rPacket, rStarted, rNum, rReceived, rTries, rRes, sink>>
  /\ UNCHANGED <<envVars, r2t, txVars>>

\* RxCksum handing a packet whose checksum is wrong to the sink
RxCksumAcceptsAll ==
  /\ rPc = "cksum"
  /\ t2r # <<>>
  /\ \E b \in Arrive(Head(t2r), TRUE) :
       /\ injected' = Charge(Head(t2r), b)
       /\ t2r' = Tail(t2r)
       /\ rLog' = Log(rLog, <<Ev(rPc, "r", b)>>)
       /\ rPc' = IF get_checksum(rBuf) # b THEN "sink" ELSE "ack"
  /\ UNCHANGED <<rPacket, rStarted, rBuf, rNum, rReceived, rTries, rRes, sink>>
  /\ UNCHANGED <<envVars, r2t, txVars>>

\* let checksum = self.read_byte(false)?;
\* if get_checksum(&buf[..128]) != checksum { .. }
RxCksum ==
  /\ rPc = "cksum"
  /\ t2r # <<>>
  /\ \E b \in Arrive(Head(t2r), TRUE) :
       /\ injected' = Charge(Head(t2r), b)
       /\ t2r' = Tail(t2r)
       /\ rLog' = Log(rLog, <<Ev(rPc, "r", b)>>)
       /\ rPc' = IF get_checksum(rBuf) # b THEN "nak_ck" ELSE "ack"
  /\ UNCHANGED <<rPacket, rStarted, rBuf, rNum, rReceived, rTries, rRes, sink>>
  /\ UNCHANGED <<envVars, r2t, txVars>>

\* RxNakCk advancing the expected sequence number of the receiver
RxNakCkAdvances ==
  /\ rPc = "nak_ck"
  /\ RxWriteByte(NAK)
  /\ rLog' = Log(rLog, <<Ev(rPc, "w", NAK)>>)
  /\ rPacket' = WrappingAdd1(rPacket)
  /\ RxInterrupted
  /\ UNCHANGED <<rStarted, rBuf, rNum, rReceived, sink>>

\* self.write_byte(NAK)?; return ioerr!(Interrupted, "checksum mismatch");
RxNakCk ==
  /\ rPc = "nak_ck"
  /\ RxWriteByte(NAK)
  /\ rLog' = Log(rLog, <<Ev(rPc, "w", NAK)>>)
  /\ RxInterrupted
  /\ UNCHANGED <<rPacket, rStarted, rBuf, rNum, rReceived, sink>>

\* self.write_byte(ACK)?;
RxAck ==
  /\ rPc = "ack"
  /\ RxWriteByte(ACK)
  /\ rLog' = Log(rLog, <<Ev(rPc, "w", ACK)>>)
  /\ rPc' = "acked"
  /\ UNCHANGED <<rPacket, rStarted, rBuf, rNum, rReceived, rTries, rRes, sink>>

\* RxAcked reporting the packet number after the increment
RxAckedReportsNext ==
  /\ rPc = "acked"
  /\ rLog' = Log(rLog, <<Ev(rPc, "Packet", WrappingAdd1(rPacket))>>)
  /\ rPacket' = WrappingAdd1(rPacket)
  /\ rReceived' = rReceived + PacketSize
  /\ rPc' = "sink"
  /\ UNCHANGED <<rStarted, rBuf, rNum, rTries, rRes, sink>>
  /\ UNCHANGED <<envVars, injected, t2r, r2t, txVars>>

\* (self.progress)(Progress::Packet(packet_num));
\* self.packet = self.packet.wrapping_add(1); Ok(128)
\* and, in receive_with_progress, received += n;
\* (the ACK is with the transmitter, which may act on it, before these run)
RxAcked ==
  /\ rPc = "acked"
  /\ rLog' = Log(rLog, <<Ev(rPc, "Packet", rNum)>>)
  /\ rPacket' = WrappingAdd1(rPacket)
  /\ rReceived' = rReceived + PacketSize
  /\ rPc' = "sink"
  /\ UNCHANGED <<rStarted, rBuf, rNum, rTries, rRes, sink>>
  /\ UNCHANGED <<envVars, injected, t2r, r2t, txVars>>

\* RxSink going on with the attempts the last packet used up
RxSinkKeepsTries ==
  /\ rPc = "sink"
  /\ sink' = SinkWrite(sink, rBuf)
  /\ rLog' = Log(rLog, <<Ev(rPc, "sink", 0)>>)
  /\ rPc' = "first"
  /\ UNCHANGED <<rPacket, rStarted, rBuf, rNum, rReceived, rTries, rRes>>
  /\ UNCHANGED <<envVars, injected, t2r, r2t, txVars>>

\* RxSink with the write to the sink left out
RxSinkDropped ==
  /\ rPc = "sink"
  /\ rLog' = Log(rLog, <<Ev(rPc, "sink", 0)>>)
  /\ rTries' = 0
  /\ rPc' = "first"
  /\ UNCHANGED <<rPacket, rStarted, rBuf, rNum, rReceived, rRes, sink>>
  /\ UNCHANGED <<envVars, injected, t2r, r2t, txVars>>

\* into.write_all(&packet)?; continue 'next_packet;
RxSink ==
  /\ rPc = "sink"
  /\ sink' = SinkWrite(sink, rBuf)
  /\ rLog' = Log(rLog, <<Ev(rPc, "sink", 0)>>)
  /\ rTries' = 0
  /\ rPc' = "first"
  /\ UNCHANGED <<rPacket, rStarted, rBuf, rNum, rReceived, rRes>>
  /\ UNCHANGED <<envVars, injected, t2r, r2t, txVars>>

\* RxEotNak answering the first EOT with ACK
RxEotNakAsAck ==
  /\ rPc = "eot_nak"
  /\ RxWriteByte(ACK)
  /\ rLog' = Log(rLog, <<Ev(rPc, "w", ACK)>>)
  /\ rPc' = "eot2"
  /\ UNCHANGED <<rPacket, rStarted, rBuf, rNum, rReceived, rTries, rRes, sink>>

\* EOT => { self.write_byte(NAK)?;
RxEotNak ==
  /\ rPc = "eot_nak"
  /\ RxWriteByte(NAK)
  /\ rLog' = Log(rLog, <<Ev(rPc, "w", NAK)>>)
  /\ rPc' = "eot2"
  /\ UNCHANGED <<rPacket, rStarted, rBuf, rNum, rReceived, rTries, rRes, sink>>

\* let byte = self.read_byte(false)?;
\* if byte != EOT { return ioerr!(InvalidData, "expected second EOT"); }
RxEot2 ==
  /\ rPc = "eot2"
  /\ t2r # <<>>
  /\ \E b \in Arrive(Head(t2r), FALSE) :
       /\ injected' = Charge(Head(t2r), b)
       /\ t2r' = Tail(t2r)
       /\ rLog' = Log(rLog, <<Ev(rPc, "r", b)>>)
       /\ IF b # EOT
          THEN RxReturn("InvalidData")
          ELSE rPc' = "eot_ack" /\ rRes' = rRes
  /\ UNCHANGED <<rPacket, rStarted, rBuf, rNum, rReceived, rTries, sink>>
  /\ UNCHANGED <<envVars, r2t, txVars>>

\* self.write_byte(ACK)?; Ok(0) }  and, in receive_with_progress,
\* Ok(0) => break 'next_packet, then Ok(received)
RxEotAck ==
  /\ rPc = "eot_ack"
  /\ RxWriteByte(ACK)
  /\ rLog' = Log(rLog, <<Ev(rPc, "w", ACK)>>)
  /\ RxReturn("Ok")
  /\ UNCHANGED <<rPacket, rStarted, rBuf, rNum, rReceived, rTries, sink>>

\* _ => { let next_byte = self.read_byte(false)?;
\*        if next_byte == CAN { return ioerr!(ConnectionAborted, ..) } else ..
RxOther ==
  /\ rPc = "other"
  /\ t2r # <<>>
  /\ \E b \in Arrive(Head(t2r), FALSE) :
       /\ injected' = Charge(Head(t2r), b)
       /\ t2r' = Tail(t2r)
       /\ rLog' = Log(rLog, <<Ev(rPc, "r", b)>>)
       /\ IF b = CAN
          THEN RxReturn("ConnectionAborted")
          ELSE rPc' = "nak_other" /\ rRes' = rRes
  /\ UNCHANGED <<rPacket, rStarted, rBuf, rNum, rReceived, rTries, sink>>
  /\ UNCHANGED <<envVars, r2t, txVars>>

\* self.write_byte(NAK)?; return ioerr!(InvalidData, "expected SOH or EOT");
RxNakOther ==
  /\ rPc = "nak_other"
  /\ RxWriteByte(NAK)
  /\ rLog' = Log(rLog, <<Ev(rPc, "w", NAK)>>)
  /\ RxReturn("InvalidData")
  /\ UNCHANGED <<rPacket, rStarted, rBuf, rNum, rReceived, rTries, sink>>

\* the steps of a receive that meets no fault
RxClean ==
  \/ RxInit \/ RxFirst \/ RxNum \/ RxNeg \/ RxData \/ RxCksum \/ RxAck \/ RxAcked
  \/ RxSink
  \/ RxEotNak \/ RxEot2 \/ RxEotAck

RxStep == RxClean \/ RxNakNum \/ RxNakCk \/ RxOther \/ RxNakOther

\* -------------------------------------------------------------- timeouts
\* the places where a side waits in self.inner.read_exact(..)
TxReadPlaces == {"hs", "reply", "eot1r", "eot2r"}
RxReadPlaces == {"first", "num", "neg", "data", "cksum", "eot2", "other"}

\* TxTimedOut for the read of the handshake only: the other reads of the
\* transmitter wait without a limit
TxTimedOutAtHandshake ==
  /\ tPc = "hs"
  /\ r2t = <<>>
  /\ tLog' = Log(tLog, <<Ev(tPc, "timeout", 0)>>)
  /\ TxReturn("TimedOut")
  /\ UNCHANGED <<tPacket, tStarted, tBuf, tN, tWritten, tTries, tPos>>
  /\ UNCHANGED <<envVars, injected, t2r, r2t, rxVars>>

\* self.inner.read_exact(..)? of read_byte failing with TimedOut because no
\* byte came in time: the ? of read_byte, of expect_byte and of write_packet
\* pass the fault on, and transmit_with_progress returns it (the ? on
\* write_packet(&[]), or Err(e) => return Err(e))
TxTimedOut ==
  /\ tPc \in TxReadPlaces
  /\ r2t = <<>>
  /\ tLog' = Log(tLog, <<Ev(tPc, "timeout", 0)>>)
  /\ TxReturn("TimedOut")
  /\ UNCHANGED <<tPacket, tStarted, tBuf, tN, tWritten, tTries, tPos>>
  /\ UNCHANGED <<envVars, injected, t2r, r2t, rxVars>>

\* RxTimedOut taking the Interrupted arm: the timeout counted as an attempt
RxTimedOutAsInterrupted ==
  /\ rPc \in RxReadPlaces
  /\ IF rPc = "data" THEN Len(t2r) < PacketSize ELSE t2r = <<>>
  /\ rLog' = Log(rLog, <<Ev(rPc, "timeout", 0)>>)
  /\ RxInterrupted
  /\ UNCHANGED <<rPacket, rStarted, rBuf, rNum, rReceived, sink>>
  /\ UNCHANGED <<envVars, injected, t2r, r2t, txVars>>

\* self.inner.read_exact(..)? of read_byte or of read_packet failing with
\* TimedOut: read_packet passes the fault on and receive_with_progress
\* returns it through Err(e) => return Err(e)
RxTimedOut ==
  /\ rPc \in RxReadPlaces
  /\ IF rPc = "data" THEN Len(t2r) < PacketSize ELSE t2r = <<>>
  /\ rLog' = Log(rLog, <<Ev(rPc, "timeout", 0)>>)
  /\ RxReturn("TimedOut")
  /\ UNCHANGED <<rPacket, rStarted, rBuf, rNum, rReceived, rTries, sink>>
  /\ UNCHANGED <<envVars, injected, t2r, r2t, txVars>>

\* ------------------------------------------------------------- MiniUart
\* Option<Duration>: None, Some(t)
None == [some |-> FALSE, t |-> 0]
Some(d) == [some |-> TRUE, t |-> d]

\* the k-th byte the line delivers
LineByte(k) == 64 + k

\* has_byte: self.registers.LSR.has_mask(LsrStatus::DataReady)
has_byte == uFifo # <<>>

\* the hardware puts a byte that came in from the line into the receive FIFO
HwByteArrives ==
  /\ uPc # "done"
  /\ uArrivals < MaxArrivals
  /\ uArrivals' = uArrivals + 1
  /\ uFifo' = Append(uFifo, LineByte(uArrivals + 1))
  /\ UNCHANGED <<uPc, uLen, uTimeout, uStart, uNow, uCount, uBuf, uRes, uPolled,
                 uLastReady, uChecked>>
  /\ UNCHANGED notUart

\* the timer counts on
HwTick ==
  /\ uPc # "done"
  /\ uNow < MaxTime
  /\ uNow' = uNow + 1
  /\ UNCHANGED <<uPc, uLen, uTimeout, uStart, uFifo, uArrivals, uCount, uBuf, uRes,
                 uPolled, uLastReady, uChecked>>
  /\ UNCHANGED notUart

\* read: if buf.is_empty() { return Ok(0); } match self.wait_for_byte() ..
\* wait_for_byte: let start = timer::current_time();
UartRead ==
  /\ uPc = "call"
  /\ IF uLen = 0
     THEN uPc' = "done" /\ uRes' = "Ok" /\ uStart' = uStart
     ELSE uPc' = "wait" /\ uRes' = uRes /\ uStart' = uNow
  /\ UNCHANGED <<uLen, uTimeout, uNow, uFifo, uArrivals, uCount, uBuf, uPolled,
                 uLastReady, uChecked>>
  /\ UNCHANGED notUart

\* wait_for_byte: while !self.has_byte() { if let Some(timeout) = .. } Ok(())
\* and, in read, Ok(()) => { let mut count = 0; ..; the loop with no timeout
\* set stays here until a byte is ready
UartWaitPoll ==
  /\ uPc = "wait"
  /\ has_byte \/ uTimeout.some
  /\ uPolled' = TRUE
  /\ uLastReady' = has_byte
  /\ uPc' = IF has_byte THEN "loop" ELSE "timer"
  /\ UNCHANGED <<uLen, uTimeout, uStart, uNow, uFifo, uArrivals, uCount, uBuf, uRes,
                 uChecked>>
  /\ UNCHANGED notUart

\* wait_for_byte: if timer::current_time() - start > timeout { return Err(()) }
\* and, in read, Err(()) => Err(io::Error::new(io::ErrorKind::TimedOut, ..))
UartWaitTimer ==
  /\ uPc = "timer"
  /\ uChecked' = uNow - uStart
  /\ IF uNow - uStart > uTimeout.t
     THEN uPc' = "done" /\ uRes' = "TimedOut"
     ELSE uPc' = "wait" /\ uRes' = uRes
  /\ UNCHANGED <<uLen, uTimeout, uStart, uNow, uFifo, uArrivals, uCount, uBuf,
                 uPolled, uLastReady>>
  /\ UNCHANGED notUart

\* the condition of read's loop always true while the buffer has room: the
\* loop goes on to read_byte whether or not a byte is ready
UartLoopFill ==
  /\ uPc = "loop"
  /\ uPolled' = uPolled
  /\ uLastReady' = uLastReady
  /\ IF uCount < uLen
     THEN uPc' = "rb" /\ uRes' = uRes
     ELSE uPc' = "done" /\ uRes' = "Ok"
  /\ UNCHANGED <<uLen, uTimeout, uStart, uNow, uFifo, uArrivals, uCount, uBuf,
                 uChecked>>
  /\ UNCHANGED notUart

\* read: while count < buf.len() && self.has_byte() { .. } Ok(count)
UartLoop ==
  /\ uPc = "loop"
  /\ uPolled' = (uPolled \/ uCount < uLen)
  /\ uLastReady' = IF uCount < uLen THEN has_byte ELSE uLastReady
  /\ IF uCount < uLen /\ has_byte
     THEN uPc' = "rb" /\ uRes' = uRes
     ELSE uPc' = "done" /\ uRes' = "Ok"
  /\ UNCHANGED <<uLen, uTimeout, uStart, uNow, uFifo, uArrivals, uCount, uBuf,
                 uChecked>>
  /\ UNCHANGED notUart

\* read: buf[count] = self.read_byte(); count += 1;
\* read_byte: while !self.has_byte() {} self.registers.IO.read()
UartReadByte ==
  /\ uPc = "rb"
  /\ has_byte
  /\ uBuf' = Append(uBuf, Head(uFifo))
  /\ uFifo' = Tail(uFifo)
  /\ uCount' = uCount + 1
  /\ uPc' = "loop"
  /\ UNCHANGED <<uLen, uTimeout, uStart, uNow, uArrivals, uRes, uPolled, uLastReady,
                 uChecked>>
  /\ UNCHANGED notUart

\* ------------------------------------------------------------- StackVec
\* values a caller pushes; the backing slice holds 0 where nothing was stored
StackValues == {1, 2}

\* capacity: self.storage.len()
capacity == Len(svStorage)

\* is_full with the test one element early
is_fullEarly == svLen + 1 >= capacity

\* is_full: self.len == self.capacity()
is_full == svLen = capacity

\* as_slice / deref: &self.storage[..self.len]
as_slice == SubSeq(svStorage, 1, svLen)

\* the state a call starts from, kept for the record of the call
SvBefore == [storage |-> svStorage, len |-> svLen]

\* push: if self.is_full() { return Err(()); }
\*       self.storage[self.len] = value; self.len += 1; Ok(())
SvPush ==
  \E value \in StackValues :
    /\ svPrev' = SvBefore
    /\ IF is_full
       THEN /\ svOp' = [name |-> "push", arg |-> value, ok |-> FALSE, val |-> 0]
            /\ UNCHANGED <<svStorage, svLen>>
       ELSE /\ svStorage' = [svStorage EXCEPT ![svLen + 1] = value]
            /\ svLen' = svLen + 1
            /\ svOp' = [name |-> "push", arg |-> value, ok |-> TRUE, val |-> 0]
    /\ UNCHANGED notStack

\* pop: if self.len > 0 { self.len -= 1; Some(self.storage[self.len].clone()) }
\*      else { None }
SvPop ==
  /\ svPrev' = SvBefore
  /\ IF svLen > 0
     THEN /\ svLen' = svLen - 1
          /\ svOp' = [name |-> "pop", arg |-> 0, ok |-> TRUE, val |-> svStorage[svLen]]
     ELSE /\ svLen' = svLen
          /\ svOp' = [name |-> "pop", arg |-> 0, ok |-> FALSE, val |-> 0]
  /\ UNCHANGED svStorage
  /\ UNCHANGED notStack

\* truncate: if len < self.len { self.len = len; }
SvTruncate ==
  \E len \in 0..(MaxCap + 1) :
    /\ svPrev' = SvBefore
    /\ svLen' = IF len < svLen THEN len ELSE svLen
    /\ svOp' = [name |-> "truncate", arg |-> len, ok |-> TRUE, val |-> 0]
    /\ UNCHANGED svStorage
    /\ UNCHANGED notStack

\* a StackVec that is not in use: StackVec::new(&mut [])
StackIdle ==
  /\ svStorage = <<>> /\ svLen = 0
  /\ svOp = [name |-> "new", arg |-> 0, ok |-> TRUE, val |-> 0]
  /\ svPrev = [storage |-> <<>>, len |-> 0]

\* ---------------------------------------------------------------- shell
\* "exit" and "echo" as bytes
Exit == <<101, 120, 105, 116>>
Echo == <<101, 99, 104, 111>>

\* s.trim_end_matches(|c| c == '\n' || c == '\r')
RECURSIVE trim_end_matches(_)
trim_end_matches(s) ==
  IF s # <<>> /\ s[Len(s)] \in {Newline, Return}
  THEN trim_end_matches(SubSeq(s, 1, Len(s) - 1))
  ELSE s

\* s.split(' ').filter(|a| !a.is_empty()): where the arguments start, where
\* the argument that starts at i ends, and the arguments in order
ArgStarts(s) == {i \in 1..Len(s) : s[i] # Space /\ (i = 1 \/ s[i - 1] = Space)}
ArgEnd(s, i) ==
  CHOOSE j \in i..Len(s) :
    /\ \A k \in i..j : s[k] # Space
    /\ j = Len(s) \/ s[j + 1] = Space
RECURSIVE ArgsFrom(_, _)
ArgsFrom(s, starts) ==
  IF starts = {} THEN <<>>
  ELSE LET i == CHOOSE m \in starts : \A n \in starts : m <= n
       IN <<SubSeq(s, i, ArgEnd(s, i))>> \o ArgsFrom(s, starts \ {i})

\* Command::parse: Err(TooManyArgs) when a push finds the StackVec on the 64
\* slots of args_buf full, Err(Empty) when nothing was pushed, else Ok
parse(s) ==
  IF Cardinality(ArgStarts(s)) > ArgsCap THEN [ok |-> FALSE, err |-> "TooManyArgs", args |-> <<>>]
  ELSE IF ArgStarts(s) = {} THEN [ok |-> FALSE, err |-> "Empty", args |-> <<>>]
  ELSE [ok |-> TRUE, err |-> "", args |-> ArgsFrom(s, ArgStarts(s))]

\* the echo arm: every argument after the first followed by a space, as far
\* as the 512 bytes of args_str go, then trim_end
RECURSIVE EchoBytes(_)
EchoBytes(args) ==
  IF args = <<>> THEN <<>> ELSE Head(args) \o <<Space>> \o EchoBytes(Tail(args))
RECURSIVE trim_end(_)
trim_end(s) ==
  IF s # <<>> /\ s[Len(s)] = Space THEN trim_end(SubSeq(s, 1, Len(s) - 1)) ELSE s
EchoText(args) ==
  LET all == EchoBytes(Tail(args))
  IN trim_end(SubSeq(all, 1, Min(Len(all), InputCap)))

\* the lines a user types, each ended by Return or Newline: exit; exit typed
\* with a slip and a backspace; exit with blanks and an argument; echo hi;
\* an empty line; blanks only; exitx; 65 arguments
ManyArgs == [k \in 1..(2 * (ArgsCap + 1)) |-> IF k % 2 = 1 THEN 97 ELSE Space]
ShellLines ==
  { Exit \o <<Return>>,
    <<101, 120, 105, 121, Backspace, 116, Newline>>,
    <<Space>> \o Exit \o <<Space, Space, 110, 111, 119, Return>>,
    Echo \o <<Space, 104, 105, Return>>,
    <<Return>>,
    <<Space, Space, Delete, Delete, Delete, Space, Newline>>,
    Exit \o <<120, Return>>,
    ManyArgs \o <<Return>> }

\* loop { kprint!("{}", prefix); input_len = 0; let mut console = CONSOLE.lock();
\* and the user starts on a line
ShPrompt ==
  /\ shPc = "prompt"
  /\ shLines < MaxLines
  /\ \E line \in ShellLines : shKeys' = line
  /\ shInput' = <<>>
  /\ shLines' = shLines + 1
  /\ shPc' = "read"
  /\ UNCHANGED <<shOut, shPath>>
  /\ UNCHANGED notShell

\* let byte = console.read_byte(); and the three cases of the inner loop
ShReadByte ==
  /\ shPc = "read"
  /\ shKeys # <<>>
  /\ LET byte == Head(shKeys)
     IN /\ shKeys' = Tail(shKeys)
        /\ IF byte = Backspace \/ byte = Delete
           THEN /\ shInput' = IF Len(shInput) > 0
                              THEN SubSeq(shInput, 1, Len(shInput) - 1) ELSE shInput
                /\ shPc' = "read"
           ELSE IF byte = Newline \/ byte = Return
           THEN /\ shInput' = shInput
                /\ shPc' = "run"
           ELSE /\ shInput' = IF Len(shInput) < InputCap
                              THEN Append(shInput, byte) ELSE shInput
                /\ shPc' = "read"
  /\ UNCHANGED <<shOut, shPath, shLines>>
  /\ UNCHANGED notShell

\* let input = core::str::from_utf8(..).unwrap_or("").trim_end_matches(..);
\* if input.is_empty() { continue; } match Command::parse(input, &mut args_buf)
\* { Ok(cmd) => match cmd.path() { "echo" => .., _ => .. }, Err(..) => .. }
ShRun ==
  /\ shPc = "run"
  /\ LET input == trim_end_matches(shInput)
         cmd == parse(input)
     IN IF input = <<>>
        THEN /\ shPc' = "prompt"
             /\ UNCHANGED <<shOut, shPath>>
        ELSE IF ~cmd.ok
        THEN /\ shOut' = [kind |-> cmd.err, text |-> <<>>]
             /\ shPc' = "prompt"
             /\ UNCHANGED shPath
        ELSE /\ shPath' = cmd.args[1]
             /\ shOut' = IF cmd.args[1] = Echo
                         THEN [kind |-> "echo", text |-> EchoText(cmd.args)]
                         ELSE [kind |-> "unknown command", text |-> cmd.args[1]]
             /\ shPc' = "prompt"
  /\ UNCHANGED <<shKeys, shInput, shLines>>
  /\ UNCHANGED notShell

\* a shell that was not started
ShellIdle ==
  /\ shPc = "off" /\ shKeys = <<>> /\ shInput = <<>>
  /\ shOut = [kind |-> "", text |-> <<>>] /\ shPath = <<>> /\ shLines = 0

\* a MiniUart that is not in use
UartIdle ==
  /\ uPc = "done" /\ uLen = 0 /\ uTimeout = None /\ uStart = 0 /\ uNow = 0
  /\ uFifo = <<>> /\ uArrivals = 0 /\ uCount = 0 /\ uBuf = <<>> /\ uRes = "Ok"
  /\ uPolled = FALSE /\ uLastReady = FALSE /\ uChecked = -1

OthersIdle == UartIdle /\ StackIdle /\ ShellIdle

\* ------------------------------------------------------- specifications
\* Xmodem::new_with_progress on both sides, the locals of the two functions,
\* and an empty stream
Start ==
  /\ t2r = <<>> /\ r2t = <<>>
  /\ tPc = "read" /\ tPacket = 1 /\ tStarted = FALSE /\ tBuf = ZeroPacket
  /\ tN = 0 /\ tWritten = 0 /\ tTries = 0 /\ tPos = 0 /\ tRes = "run" /\ tLog = <<>>
  /\ rPc = "init" /\ rPacket = 1 /\ rStarted = FALSE /\ rBuf = ZeroPacket
  /\ rNum = 0 /\ rReceived = 0 /\ rTries = 0 /\ rRes = "run" /\ rLog = <<>>
  /\ sink = <<>>

PayloadBases == {65, 255}
PayloadLens == {0, 3, PacketSize, PacketSize + 3, MaxLen}

\* a transfer of a short payload over a stream that may corrupt any byte
Init ==
  /\ base \in PayloadBases
  /\ plen \in PayloadLens
  /\ budget = MaxFaults
  /\ ckOnly = FALSE /\ dataFaults = FALSE
  /\ injected = 0
  /\ sinkKeeps = TRUE /\ logging = TRUE
  /\ Start
  /\ OthersIdle

Next == TxStep \/ RxStep

Spec == Init /\ [][Next]_vars

\* a transfer of at most one packet over a stream that may corrupt one byte
\* more than in the general specification
InitShort ==
  /\ base = 65
  /\ plen \in {0, 3}
  /\ budget = MaxFaults + 1
  /\ ckOnly = FALSE /\ dataFaults = FALSE
  /\ injected = 0
  /\ sinkKeeps = TRUE /\ logging = TRUE
  /\ Start
  /\ OthersIdle

SpecShort == InitShort /\ [][Next]_vars

\* a transfer over a stream that corrupts checksum bytes only, often enough
\* to use up the attempts of a packet
InitRetry ==
  /\ base = 65
  /\ plen \in {3, PacketSize + 3}
  /\ budget = RetryFaults
  /\ ckOnly = TRUE /\ dataFaults = FALSE
  /\ injected = 0
  /\ sinkKeeps = TRUE /\ logging = TRUE
  /\ Start
  /\ OthersIdle

NextRetry == TxStep \/ RxClean \/ RxNakCk

SpecRetry == InitRetry /\ [][NextRetry]_vars

\* transfers in which payload and checksum bytes, and no others, are corrupted
InitLock ==
  /\ base = 65
  /\ plen \in {3, PacketSize + 3}
  /\ budget = LockFaults
  /\ ckOnly = TRUE /\ dataFaults = TRUE
  /\ injected = 0
  /\ sinkKeeps = TRUE /\ logging = TRUE
  /\ Start
  /\ OthersIdle

SpecLock == InitLock /\ [][NextRetry]_vars

\* transfers of one and of two packets with up to 9 failed attempts of each
InitAttempts ==
  /\ base = 65
  /\ plen \in {3, PacketSize + 3}
  /\ budget = AttemptFaults
  /\ ckOnly = TRUE /\ dataFaults = FALSE
  /\ injected = 0
  /\ sinkKeeps = TRUE /\ logging = TRUE
  /\ Start
  /\ OthersIdle

SpecAttempts == InitAttempts /\ [][NextRetry]_vars

\* a transfer of more than 256 packets over a stream that corrupts nothing,
\* into a writer that drops the bytes, without logs
InitWrap ==
  /\ base = 65
  /\ plen = (WrapPackets - 1) * PacketSize + 3
  /\ budget = 0
  /\ ckOnly = FALSE /\ dataFaults = FALSE
  /\ injected = 0
  /\ sinkKeeps = FALSE /\ logging = FALSE
  /\ Start
  /\ OthersIdle

NextWrap == TxStep \/ RxClean

SpecWrap == InitWrap /\ [][NextWrap]_vars

\* a transfer over a stream that may corrupt a byte and whose reads may time
\* out while no byte is in flight
InitTimeout ==
  /\ base = 65
  /\ plen \in {0, 3, PacketSize + 3}
  /\ budget = MaxFaults
  /\ ckOnly = FALSE /\ dataFaults = FALSE
  /\ injected = 0
  /\ sinkKeeps = TRUE /\ logging = TRUE
  /\ Start
  /\ OthersIdle

NextTimeout == Next \/ TxTimedOut \/ RxTimedOut

SpecTimeout == InitTimeout /\ [][NextTimeout]_vars

\* the same transfers, without the logs and into a writer that drops the
\* bytes, with both calls running: a call that can take a step takes one,
\* and a read that finds no byte in flight fails with TimedOut sooner or
\* later
InitLive ==
  /\ base = 65
  /\ plen \in {0, 3, PacketSize + 3}
  /\ budget = MaxFaults
  /\ ckOnly = FALSE /\ dataFaults = FALSE
  /\ injected = 0
  /\ sinkKeeps = FALSE /\ logging = FALSE
  /\ Start
  /\ OthersIdle

SpecLive ==
  /\ InitLive /\ [][NextTimeout]_vars
  /\ WF_vars(TxStep \/ TxTimedOut)
  /\ WF_vars(RxStep \/ RxTimedOut)

\* no transfer: both ends as constructed and never run
XmodemIdle ==
  /\ base = 65 /\ plen = 0 /\ budget = 0 /\ ckOnly = FALSE /\ dataFaults = FALSE
  /\ injected = 0
  /\ sinkKeeps = FALSE /\ logging = FALSE
  /\ Start

\* timeouts a caller may set with set_read_timeout
UartTimeouts == {None} \cup {Some(d) : d \in 1..(MaxTime - 2)}

\* one call of MiniUart::read with a buffer of 0..MaxBuf bytes, while bytes
\* come in from the line and the timer counts; the call may find bytes in
\* the FIFO that came in before it
InitUart ==
  /\ XmodemIdle /\ StackIdle /\ ShellIdle
  /\ uPc = "call"
  /\ uLen \in 0..MaxBuf
  /\ uTimeout \in UartTimeouts
  /\ uStart = 0 /\ uNow = 0
  /\ uArrivals \in 0..1
  /\ uFifo = [k \in 1..uArrivals |-> LineByte(k)]
  /\ uCount = 0 /\ uBuf = <<>> /\ uRes = "run"
  /\ uPolled = FALSE /\ uLastReady = FALSE /\ uChecked = -1

NextUart ==
  \/ UartRead \/ UartWaitPoll \/ UartWaitTimer \/ UartLoop \/ UartReadByte
  \/ HwByteArrives \/ HwTick

SpecUart == InitUart /\ [][NextUart]_vars

\* StackVec::new(storage) or StackVec::with_len(storage, len), len within
\* the slice (with_len asserts it), on a slice of 0..MaxCap elements, and
\* then any calls of push, pop and truncate
InitStack ==
  /\ XmodemIdle /\ UartIdle /\ ShellIdle
  /\ \E cap \in 0..MaxCap : svStorage = [k \in 1..cap |-> 0]
  /\ svLen \in 0..Len(svStorage)
  /\ svOp = [name |-> IF svLen = 0 THEN "new" ELSE "with_len", arg |-> svLen, ok |-> TRUE, val |-> 0]
  /\ svPrev = [storage |-> svStorage, len |-> svLen]

NextStack == SvPush \/ SvPop \/ SvTruncate

SpecStack == InitStack /\ [][NextStack]_vars

\* shell("> ") as kmain calls it, the user typing up to MaxLines lines
InitShell ==
  /\ XmodemIdle /\ UartIdle /\ StackIdle
  /\ shPc = "prompt" /\ shKeys = <<>> /\ shInput = <<>>
  /\ shOut = [kind |-> "", text |-> <<>>] /\ shPath = <<>> /\ shLines = 0

NextShell == ShPrompt \/ ShReadByte \/ ShRun

SpecShell == InitShell /\ [][NextShell]_vars

\* ------------------------------------------------------ what is checked
BothDone == tPc = "done" /\ rPc = "done"

\* a side that waits in a transport read for bytes that are not in flight
TxBlocked == tPc \in {"hs", "reply", "eot1r", "eot2r"} /\ r2t = <<>>
RxBlocked ==
  \/ rPc \in {"first", "num", "neg", "cksum", "eot2", "other"} /\ t2r = <<>>
  \/ rPc = "data" /\ Len(t2r) < PacketSize

\* no side has a step left
Stopped == (tPc = "done" \/ TxBlocked) /\ (rPc = "done" \/ RxBlocked)

\* the payload, and the payload followed by zero bytes up to a whole number
\* of packets
P == Payload(base, plen)
PaddedLen == ((plen + PacketSize - 1) \div PacketSize) * PacketSize
PaddedP == [i \in 1..PaddedLen |-> IF i <= plen THEN PayloadByte(base, i) ELSE 0]

\* C1 as stated: over a stream that corrupts nothing both calls succeed, the
\* sink equals the payload exactly and the byte totals equal len(P)
C1_RoundTripExact ==
  (BothDone /\ injected = 0) =>
    /\ tRes = "Ok" /\ rRes = "Ok"
    /\ sink = P
    /\ tWritten = plen /\ rReceived = plen

\* C1 (amended): over a stream that corrupts nothing the transfer never stops
\* before both calls have returned, both return success, the sink equals the
\* payload followed by the zero padding of its last packet, transmit reports
\* len(P) and receive reports the padded length
C1_RoundTripPadded ==
  injected = 0 =>
    /\ Stopped => BothDone
    /\ BothDone =>
         /\ tRes = "Ok" /\ rRes = "Ok"
         /\ sink = PaddedP
         /\ tWritten = plen
         /\ rReceived = PaddedLen

\* C1 witness: a finished clean transfer of a payload that does not fill its
\* last packet, the padding in the sink
C1_Witness ==
  /\ BothDone /\ injected = 0 /\ tRes = "Ok" /\ rRes = "Ok"
  /\ plen = PacketSize + 3
  /\ Len(sink) = 2 * PacketSize /\ sink[plen] # 0 /\ sink[plen + 1] = 0

\* the positions of a log whose entry has operation o
Ops(log, o) == {i \in DOMAIN log : log[i].op = o}

\* the last position of a log at which a packet was completed (0: none yet)
LastPacket(log) ==
  IF Ops(log, "Packet") = {} THEN 0
  ELSE CHOOSE i \in Ops(log, "Packet") : \A j \in Ops(log, "Packet") : j <= i

\* the attempts of the packet in hand: blocks written (read) since the last
\* completed packet
TxAttemptsNow == {i \in Ops(tLog, "wb") : i > LastPacket(tLog)}
RxAttemptsNow == {i \in Ops(rLog, "rb") : i > LastPacket(rLog)}

\* the attempts of the packet in hand that were answered with NAK
TxNaksNow ==
  {i \in TxAttemptsNow : i + 2 <= Len(tLog) /\ tLog[i + 2] = Ev("reply", "r", NAK)}
\* ... for which the receiver found a checksum mismatch
RxCkFailsNow ==
  {i \in RxAttemptsNow : /\ i + 1 <= Len(rLog) /\ rLog[i + 1].op = "r"
                         /\ get_checksum(rLog[i].v) # rLog[i + 1].v}

\* the bytes a side still writes to the transport or reads from it
TxIo == Ops(tLog, "w") \cup Ops(tLog, "wb") \cup Ops(tLog, "r")
RxIo == Ops(rLog, "w") \cup Ops(rLog, "r") \cup Ops(rLog, "rb")

\* C2: a packet is attempted at most 10 times; when 10 attempts of one packet
\* were answered with NAK (failed the checksum at the receiver) the call has
\* returned BrokenPipe, and it returns BrokenPipe in no other case; the NAK
\* read (written) for the 10th attempt is then the last thing the side did on
\* the transport: no 11th copy, no later packet, no EOT, no further read or ACK
C2_RetryBound ==
  /\ Cardinality(TxAttemptsNow) <= 10
  /\ Cardinality(RxAttemptsNow) <= 10
  /\ (tRes = "BrokenPipe") = (Cardinality(TxNaksNow) = 10)
  /\ (rRes = "BrokenPipe") = (Cardinality(RxCkFailsNow) = 10 /\ rPc # "nak_ck")
  /\ tRes = "BrokenPipe" =>
       /\ tPc = "done"
       /\ Cardinality(TxAttemptsNow) = 10
       /\ Last(tLog) = Ev("reply", "r", NAK)
       /\ \A i \in Ops(tLog, "w") : tLog[i].v = EOT => tLog[i].at \notin {"eot1", "eot2"}
  /\ rRes = "BrokenPipe" =>
       /\ rPc = "done"
       /\ Cardinality(RxAttemptsNow) = 10
       /\ Last(rLog) = Ev("nak_ck", "w", NAK)

\* C2 witness: ten corrupted attempts of the second packet, both calls
\* returned BrokenPipe
C2_Witness ==
  /\ tRes = "BrokenPipe" /\ rRes = "BrokenPipe"
  /\ injected = 10
  /\ LastPacket(tLog) > 0
  /\ Cardinality(TxNaksNow) = 10 /\ Cardinality(RxCkFailsNow) = 10

\* the reads of a block whose checksum byte, read next, did not match
RxCkFails ==
  {i \in Ops(rLog, "rb") : i + 1 <= Len(rLog) /\ get_checksum(rLog[i].v) # rLog[i + 1].v}

\* one attempt as the transmitter put it on the wire: the entries around the
\* block written at position i of its log
WireAttempt(i) == <<tLog[i - 3].v, tLog[i - 2].v, tLog[i - 1].v, tLog[i].v, tLog[i + 1].v>>

\* the attempts that repeat the sequence byte of an earlier attempt
Resends ==
  {i \in Ops(tLog, "wb") : \E j \in Ops(tLog, "wb") : j < i /\ tLog[j - 2].v = tLog[i - 2].v}

\* the number of packets of the payload
Packets == PaddedLen \div PacketSize

\* the transfer met exactly one fault, a checksum mismatch at the receiver
OneCkFail == injected = 1 /\ Cardinality(RxCkFails) = 1

\* C3: when exactly one attempt arrives with a checksum mismatch (and nothing
\* else is corrupted) the receiver answers that attempt with NAK, the transfer
\* does not stop before both calls have returned success, and then the
\* transmitter has sent exactly one attempt more than there are packets, the
\* extra one a byte-for-byte copy (same sequence byte, same payload) of the
\* attempt before it and of the packet the receiver rejected, each side has
\* reported one Packet event per packet and none for the corrupted attempt,
\* and the sink holds every packet once
C3_SingleCorruption ==
  OneCkFail =>
    /\ \A i \in RxCkFails :
         /\ i + 2 <= Len(rLog) => rLog[i + 2] = Ev("nak_ck", "w", NAK)
         /\ i + 3 <= Len(rLog) => rLog[i + 3].op # "Packet"
    /\ Stopped => BothDone
    /\ BothDone =>
         /\ tRes = "Ok" /\ rRes = "Ok"
         /\ Cardinality(Ops(tLog, "wb")) = Packets + 1
         /\ Cardinality(Resends) = 1
         /\ \A i \in Resends :
              /\ i - 6 \in Ops(tLog, "wb")
              /\ WireAttempt(i) = WireAttempt(i - 6)
              /\ tLog[i - 4] = Ev("reply", "r", NAK)
              /\ \A k \in RxCkFails : rLog[k - 2].v = tLog[i - 2].v
         /\ Cardinality(Ops(tLog, "Packet")) = Packets
         /\ Cardinality(Ops(rLog, "Packet")) = Packets
         /\ Cardinality(Ops(rLog, "sink")) = Packets
         /\ sink = PaddedP

\* C3 witness: a finished transfer of two packets in which the second one
\* failed the checksum once and was sent twice
C3_Witness ==
  /\ OneCkFail /\ BothDone /\ tRes = "Ok" /\ rRes = "Ok"
  /\ plen = PacketSize + 3
  /\ Cardinality(Ops(tLog, "wb")) = 3
  /\ \E i \in Resends : tLog[i - 2].v = 2

\* the reads of the transmitter that returned CAN
TxCanReads == {i \in Ops(tLog, "r") : tLog[i].v = CAN}

\* the attempts of the packet in hand that the transmitter's loop has counted
\* as used: those answered with NAK
TxUsedAttempts == IF tN = 0 THEN 0 ELSE Cardinality(TxNaksNow)

\* C4: every read of the transmitter is a read of an expected response (at
\* the handshake, after a data packet, after the first or the second EOT), and
\* a CAN read there is the last thing the transmitter does: transmit has
\* returned ConnectionAborted, the read is the last entry of its log (no byte
\* written after it), and its attempt counter still counts only the attempts
\* answered with NAK
C4_CancelTransmit ==
  /\ \A i \in Ops(tLog, "r") : tLog[i].at \in {"hs", "reply", "eot1r", "eot2r"}
  /\ \A i \in TxCanReads :
       /\ i = Len(tLog)
       /\ tPc = "done" /\ tRes = "ConnectionAborted"
       /\ tTries = TxUsedAttempts

\* C4 witness: CAN read in place of the reply to the second attempt of a
\* packet, the first attempt having been answered with NAK
C4_Witness ==
  /\ tRes = "ConnectionAborted"
  /\ Last(tLog) = Ev("reply", "r", CAN)
  /\ tTries = 1 /\ Cardinality(TxAttemptsNow) = 2

\* C5 as stated: a CAN read by the receiver as the first byte of a packet
\* exchange or in place of the second EOT is the last thing the receiver does,
\* and receive has returned ConnectionAborted
C5_CancelReceive ==
  \A i \in Ops(rLog, "r") :
    (rLog[i].at \in {"first", "eot2"} /\ rLog[i].v = CAN) =>
      /\ i = Len(rLog)
      /\ rPc = "done" /\ rRes = "ConnectionAborted"

\* the ordinal (1, 2, ...) of the packet the transmitter has in hand, from its
\* position in the data source, and of the packet the receiver is reading,
\* from the bytes it has accepted
TxOrdinal == (tPos + PacketSize - 1) \div PacketSize
RxOrdinal == rReceived \div PacketSize + 1

\* each side's counter is 1 plus the number of packets it has completed,
\* modulo 256, and the receiver meets no packet it rejects
C6_Counters ==
  /\ tPacket = (1 + (tWritten + PacketSize - 1) \div PacketSize) % 256
  /\ rPacket = RxOrdinal % 256
  /\ rPc \notin {"nak_num", "nak_ck", "other", "nak_other"}
  /\ Stopped => BothDone
  /\ BothDone => tRes = "Ok" /\ rRes = "Ok" /\ rReceived = Packets * PacketSize

\* the byte the transmitter puts on the wire as sequence byte and as
\* complement of packet k, and the sequence byte of a packet the receiver
\* accepts
C6_Wire ==
  /\ (tPc = "seq" /\ tPc' = "neg") =>
       /\ t2r' = Append(t2r, TxOrdinal % 256)
       /\ TxOrdinal = 255 => Last(t2r') = 255
       /\ TxOrdinal = 256 => Last(t2r') = 0
       /\ TxOrdinal = 257 => Last(t2r') = 1
  /\ (tPc = "neg" /\ tPc' = "data") =>
       /\ t2r' = Append(t2r, 255 - (TxOrdinal % 256))
       /\ TxOrdinal = 257 => Last(t2r') = 254
  /\ (rPc = "acked" /\ rPc' = "sink") =>
       /\ rNum = RxOrdinal % 256
       /\ RxOrdinal = 256 => rNum = 0 /\ rPacket = 0 /\ rPacket' = 1

\* C6: over a stream that corrupts nothing, each side's counter starts at 1
\* and is 1 plus the number of packets completed, modulo 256; packet k goes on
\* the wire with sequence byte k mod 256 and complement 255 - (k mod 256), so
\* packet 255 carries 255, packet 256 carries 0 and packet 257 carries 1 with
\* complement 254; the receiver accepts every packet, 0 after 255 included,
\* and the transfer does not stop before both calls have returned success
C6_SequenceWrap == [](injected = 0 => C6_Counters) /\ [][C6_Wire]_vars

\* C6 witness: the receiver has accepted packet 257, read with sequence byte
\* 1, and expects 2 next; the transmitter has sent 256 packets before it
C6_Witness ==
  /\ rPc = "sink" /\ rReceived = 257 * PacketSize /\ rNum = 1 /\ rPacket = 2
  /\ tPos > 256 * PacketSize

\* the 128 bytes packet k of the payload must carry: its bytes of the payload,
\* then zeros
PaddedBlock(k) ==
  [i \in 1..PacketSize |->
     IF (k - 1) * PacketSize + i <= plen
     THEN PayloadByte(base, (k - 1) * PacketSize + i) ELSE 0]

\* the transmitter has the last packet of a payload in hand and this packet
\* is not full
LastShort == plen % PacketSize # 0 /\ tPos = plen /\ tN > 0

\* C7: the last data packet of a payload whose length is no multiple of 128
\* goes on the wire, at every attempt, as a block of exactly 128 bytes: the
\* len(P) mod 128 bytes left of the payload, then zeros only (nothing of the
\* packet before it); the checksum byte written after it is the wrapping sum
\* of these 128 bytes
C7_Padding ==
  LastShort =>
    /\ tN = plen % PacketSize
    /\ tPc = "cksum" =>
         /\ Last(tLog).at = "data" /\ Last(tLog).op = "wb"
         /\ Len(Last(tLog).v) = PacketSize
         /\ Last(tLog).v = PaddedBlock(TxOrdinal)
         /\ \A i \in (tN + 1)..PacketSize : Last(tLog).v[i] = 0
    /\ tPc = "reply" =>
         /\ Last(tLog) = Ev("cksum", "w", get_checksum(PaddedBlock(TxOrdinal)))
         /\ tLog[Len(tLog) - 1].v = PaddedBlock(TxOrdinal)

\* C7 witness: the second packet of a payload of 131 bytes is on the wire with
\* its checksum, 3 bytes and zeros where the first packet had payload bytes
C7_Witness ==
  /\ LastShort /\ tPc = "reply" /\ plen = PacketSize + 3
  /\ tLog[Len(tLog) - 1].v[3] # 0
  /\ tLog[Len(tLog) - 1].v[4] = 0
  /\ \E i \in Ops(tLog, "wb") : i < Len(tLog) - 1 /\ tLog[i].v[4] # 0

\* what the transmitter wrote for data packets, in order
TxPacketWrites ==
  SelectSeq(tLog, LAMBDA e : e.at \in {"soh", "seq", "neg", "data", "cksum"})

\* a clean, finished transmit of the payload [0x41, 0x42, 0x43]
AbcSent == base = 65 /\ plen = 3 /\ injected = 0 /\ tRes = "Ok"

\* 0x41, 0x42, 0x43 and 125 zero bytes
AbcBlock == [i \in 1..PacketSize |-> IF i <= 3 THEN 64 + i ELSE 0]

\* the data packet of the scenario with the checksum byte ck
AbcPacket(ck) ==
  <<Ev("soh", "w", SOH), Ev("seq", "w", 1), Ev("neg", "w", 254),
    Ev("data", "wb", AbcBlock), Ev("cksum", "w", ck)>>

\* C8 as stated: the transmit of [0x41, 0x42, 0x43] emits exactly one data
\* packet, SOH 01 FE 41 42 43 00 x 125 and the checksum byte 0xCA (202)
C8_ScenarioCA == AbcSent => TxPacketWrites = AbcPacket(202)

\* C8 (amended): the transmit of [0x41, 0x42, 0x43] emits exactly one data
\* packet, SOH 01 FE 41 42 43 00 x 125 and the checksum byte
\* (0x41 + 0x42 + 0x43) mod 256 = 0xC6 (198)
C8_ScenarioC6 ==
  AbcSent =>
    /\ TxPacketWrites = AbcPacket(198)
    /\ 198 = (65 + 66 + 67) % 256

\* C8 witness: the scenario has run to the end
C8_Witness ==
  /\ AbcSent /\ rRes = "Ok"
  /\ Len(TxPacketWrites) = 5 /\ TxPacketWrites[5].v = 198

\* the last four entries of a log
Tail4(log) == SubSeq(log, Len(log) - 3, Len(log))

\* the exchange that ends a transmit, and the one that ends a receive
TxEnding ==
  <<Ev("eot1", "w", EOT), Ev("eot1r", "r", NAK), Ev("eot2", "w", EOT), Ev("eot2r", "r", ACK)>>
RxEnding ==
  <<Ev("first", "r", EOT), Ev("eot_nak", "w", NAK), Ev("eot2", "r", EOT), Ev("eot_ack", "w", ACK)>>

\* the first-byte reads of the receiver that returned EOT
RxEotReads == {i \in Ops(rLog, "r") : rLog[i].at = "first" /\ rLog[i].v = EOT}

\* C9: transmit writes its first EOT only when the whole source is read and
\* the last data packet is acknowledged; it has returned success only when
\* its log ends with EOT written, NAK read, EOT written, ACK read, and then
\* the value it returns is len(P); the receiver answers a first EOT with NAK,
\* then reads one byte: any byte other than EOT ends receive with a fault and
\* nothing more written, EOT is answered with ACK and only then receive has
\* returned success
C9_Termination ==
  /\ \A i \in Ops(tLog, "w") :
       tLog[i].at = "eot1" =>
         /\ tPos = plen /\ tWritten = plen
         /\ tLog[i - 1].op \in {"Packet", "Started"}
  /\ tRes = "Ok" =>
       /\ Len(tLog) >= 4 /\ Tail4(tLog) = TxEnding
       /\ tWritten = plen
  /\ \A i \in RxEotReads :
       /\ i + 1 <= Len(rLog) => rLog[i + 1] = Ev("eot_nak", "w", NAK)
       /\ i + 2 <= Len(rLog) =>
            /\ rLog[i + 2].at = "eot2" /\ rLog[i + 2].op = "r"
            /\ rLog[i + 2].v # EOT =>
                 i + 2 = Len(rLog) /\ rPc = "done" /\ rRes \notin {"run", "Ok"}
       /\ i + 3 <= Len(rLog) =>
            rLog[i + 3] = Ev("eot_ack", "w", ACK) /\ i + 3 = Len(rLog)
  /\ rRes = "Ok" => Len(rLog) >= 4 /\ Tail4(rLog) = RxEnding
  /\ (rRes = "run" /\ rPc # "done") \/ (rRes # "run" /\ rPc = "done")

\* C9 witness: both calls have returned success after the two-step ending of
\* a transfer of 131 bytes
C9_Witness ==
  /\ tRes = "Ok" /\ rRes = "Ok" /\ plen = PacketSize + 3 /\ tWritten = plen
  /\ Tail4(tLog) = TxEnding /\ Tail4(rLog) = RxEnding

\* the transport writes of the transmitter
TxWrites == Ops(tLog, "w") \cup Ops(tLog, "wb")

\* C10: the first thing the receiver does on the transport is to write NAK;
\* the first thing the transmitter does on the transport, for an empty
\* payload too, is to read one byte (after reporting Waiting); it writes only
\* after that read and only if the byte read was NAK; with any other byte the
\* read is the last entry of its log and transmit has returned a fault
\* (ConnectionAborted for CAN, InvalidData otherwise), nothing being written
C10_Initiation ==
  /\ rPc = "init" => rLog = <<>> /\ r2t = <<>>
  /\ rLog # <<>> => rLog[1] = Ev("init", "w", NAK)
  /\ tLog # <<>> => tLog[1] = Ev("wait", "Waiting", 0)
  /\ Len(tLog) < 3 => t2r = <<>>
  /\ Len(tLog) >= 2 =>
       /\ tLog[2].at = "hs" /\ tLog[2].op = "r"
       /\ tLog[2].v # NAK =>
            /\ Len(tLog) = 2 /\ tPc = "done"
            /\ tRes = IF tLog[2].v = CAN THEN "ConnectionAborted" ELSE "InvalidData"
  /\ \A i \in TxWrites : i > 2 /\ tLog[2] = Ev("hs", "r", NAK)

\* C10 witness: for an empty payload the transmitter has read NAK and then
\* written EOT, its first byte on the wire
C10_Witness ==
  /\ plen = 0 /\ Len(tLog) >= 4
  /\ tLog[2] = Ev("hs", "r", NAK)
  /\ tLog[4] = Ev("eot1", "w", EOT)
  /\ TxWrites = {4}

\* the positions of the transmitter's progress events, and the rank (1, 2,
\* ...) of the Packet event at position i among its Packet events
TxProgress == Ops(tLog, "Waiting") \cup Ops(tLog, "Started") \cup Ops(tLog, "Packet")
PacketRank(i) == Cardinality({j \in Ops(tLog, "Packet") : j <= i})

\* C11 as stated: the transmitter's callback sees Waiting once and first,
\* Started once, right after the NAK of the handshake, and then one Packet
\* event per acknowledged packet, the k-th of them carrying the sequence
\* number of the k-th packet, k modulo 256 (Packet(1), Packet(2), ...); no
\* Packet event precedes Started
C11_ProgressOrder ==
  /\ Cardinality(Ops(tLog, "Waiting")) <= 1
  /\ Cardinality(Ops(tLog, "Started")) <= 1
  /\ \A i \in TxProgress : tLog[i].op = "Waiting" <=> i = 1
  /\ \A i \in Ops(tLog, "Started") : i = 3 /\ tLog[2] = Ev("hs", "r", NAK)
  /\ \A i \in Ops(tLog, "Packet") :
       /\ i > 3 /\ tLog[i - 1] = Ev("reply", "r", ACK)
       /\ tLog[i].v = PacketRank(i) % Byte

\* everything the transmitter wrote to the transport, in order
TxWritten == SelectSeq(tLog, LAMBDA e : e.op \in {"w", "wb"})

\* the writes of the termination exchange
IsEotWrite(e) == e.at \in {"eot1", "eot2"}

\* the writes are framed as packets of SOH, n, 255 - n, a block of 128 bytes
\* and a checksum byte, followed by nothing but EOT bytes written only
\* after whole packets; the checksum byte written last is the wrapping sum of
\* the block before it
C12_Frames ==
  LET W == TxWritten
  IN /\ \A j \in DOMAIN W :
          IF IsEotWrite(W[j])
          THEN /\ W[j].op = "w" /\ W[j].v = EOT
               /\ \A k \in j..Len(W) : IsEotWrite(W[k])
               /\ (j > 1 /\ ~IsEotWrite(W[j - 1])) => (j - 1) % 5 = 0
          ELSE CASE (j - 1) % 5 = 0 -> W[j].op = "w" /\ W[j].v = SOH
                 [] (j - 1) % 5 = 1 -> W[j].op = "w" /\ W[j].v \in 0..(Byte - 1)
                 [] (j - 1) % 5 = 2 -> W[j].op = "w" /\ W[j].v = 255 - W[j - 1].v
                 [] (j - 1) % 5 = 3 -> W[j].op = "wb" /\ Len(W[j].v) = PacketSize
                 [] OTHER -> W[j].op = "w"
     /\ (tLog # <<>> /\ Last(tLog).at = "cksum") =>
          Last(tLog).v = get_checksum(tLog[Len(tLog) - 1].v)
     /\ tRes = "Ok" => W # <<>> /\ Last(W) = Ev("eot2", "w", EOT)

\* a step leaves what the transmitter's log holds in place and adds to it
TxLogGrows == Len(tLog') >= Len(tLog) /\ SubSeq(tLog', 1, Len(tLog)) = tLog

\* C12: what the transmitter writes is a sequence of data packet attempts,
\* each SOH, a sequence byte n, the byte 255 - n, a block of exactly 128 bytes
\* and the wrapping sum of the block, in this order (132 bytes), followed by
\* nothing but EOT bytes, written only after whole packets; no block is
\* shorter than 128 bytes and a successful transmit ends with EOT.  (Each
\* checksum byte is compared when it is written; the log is never rewritten.)
C12_WireFraming == [](C12_Frames) /\ [][TxLogGrows]_vars

\* C12 witness: a payload of 131 bytes was sent as two packets of 132 bytes,
\* the second carrying 3 payload bytes, and the two EOT bytes
C12_Witness ==
  /\ tRes = "Ok" /\ plen = PacketSize + 3 /\ injected = 0
  /\ Len(TxWritten) = 12
  /\ Len(TxWritten[9].v) = PacketSize
  /\ TxWritten[11].v = EOT

\* C13: a transport read that fails with the timeout fault is the last thing
\* the side does on the transport, and the call has returned TimedOut; the
\* attempts counted for the packet in hand are the attempts answered with NAK
\* (found with a bad checksum), the timeout not among them
C13_TimeoutFatal ==
  /\ \A i \in Ops(tLog, "timeout") :
       /\ i = Len(tLog) /\ tPc = "done" /\ tRes = "TimedOut"
       /\ tTries = Cardinality(TxNaksNow) /\ tTries < TxAttempts
  /\ \A i \in Ops(rLog, "timeout") :
       /\ i = Len(rLog) /\ rPc = "done" /\ rRes = "TimedOut"
       /\ rTries = Cardinality(RxCkFailsNow) /\ rTries < RxAttempts
  /\ tRes = "TimedOut" => Ops(tLog, "timeout") # {}
  /\ rRes = "TimedOut" => Ops(rLog, "timeout") # {}

\* C13 witness: the transmitter timed out waiting for the reply to a data
\* packet and the receiver timed out later, in the middle of a packet
C13_Witness ==
  /\ BothDone /\ tRes = "TimedOut" /\ rRes = "TimedOut"
  /\ Last(tLog) = Ev("reply", "timeout", 0)
  /\ Last(rLog).op = "timeout" /\ Last(rLog).at \in {"num", "neg", "data", "cksum"}

\* the first n bytes the line delivered
LineBytes(n) == [k \in 1..n |-> LineByte(k)]

\* C14: MiniUart::read with an empty buffer returns Ok(0) without looking
\* at the hardware; with a non-empty buffer it waits for the first byte only:
\* it returns TimedOut only when a timeout is set, no byte was ready at its
\* latest look and the timer test found more than the timeout passed, having
\* read nothing, and it never waits on after such a test; once a byte is
\* ready read_byte is entered only with a byte ready (it never waits), and
\* read returns Ok(count), 1 <= count <= buf.len(), with the first count
\* bytes of the line in order, stopping short of the buffer only when the
\* FIFO reported no data ready
C14_UartRead ==
  /\ uCount = Len(uBuf) /\ uCount <= uLen
  /\ uBuf = LineBytes(uCount)
  /\ uLen = 0 =>
       /\ uPc \in {"call", "done"}
       /\ uPolled = FALSE /\ uCount = 0
       /\ uPc = "done" => uRes = "Ok"
  /\ uPc = "rb" => has_byte /\ uLastReady
  /\ uPc = "timer" => uTimeout.some /\ uCount = 0 /\ ~uLastReady
  /\ (uPc \in {"wait", "timer", "loop", "rb"} /\ uChecked # -1) => uChecked <= uTimeout.t
  /\ (uPc = "done" /\ uRes = "TimedOut") =>
       /\ uTimeout.some /\ uChecked > uTimeout.t
       /\ uCount = 0 /\ ~uLastReady
  /\ (uPc = "done" /\ uRes = "Ok" /\ uLen > 0) =>
       /\ 1 <= uCount /\ uCount <= uLen
       /\ uCount < uLen => ~uLastReady
  /\ uPc = "done" => uRes \in {"Ok", "TimedOut"}

\* C14 witness: a read into a buffer of 3 bytes waited, its timeout not yet
\* passed at a timer test, and returned the 2 bytes that had come in when it
\* found the FIFO empty
C14_Witness ==
  /\ uPc = "done" /\ uRes = "Ok" /\ uLen = 3 /\ uCount = 2
  /\ uBuf = <<LineByte(1), LineByte(2)>>
  /\ uFifo = <<>> /\ ~uLastReady
  /\ uTimeout.some /\ uChecked # -1

\* the elements a StackVec held before the latest call
SvPrevSlice == SubSeq(svPrev.storage, 1, svPrev.len)

\* C15: whatever calls of push, pop and truncate were made, len() is at most
\* capacity(); a push on a full vector returned Err and left the length and
\* the elements as they were; a push on a vector that was not full returned
\* Ok, made the length one more and the value the last element, the elements
\* before it as they were; and a pop returns the last element (the value of
\* a push just made) and makes the length one less
C15_StackVecCapacity ==
  /\ svLen <= capacity
  /\ capacity = Len(svPrev.storage)
  /\ svOp.name = "push" =>
       IF svPrev.len = capacity
       THEN /\ ~svOp.ok
            /\ svLen = svPrev.len /\ svStorage = svPrev.storage
       ELSE /\ svOp.ok
            /\ svLen = svPrev.len + 1
            /\ as_slice = Append(SvPrevSlice, svOp.arg)
  /\ svOp.name = "pop" =>
       IF svPrev.len = 0
       THEN ~svOp.ok /\ svLen = 0
       ELSE /\ svOp.ok /\ svOp.val = SvPrevSlice[svPrev.len]
            /\ svLen = svPrev.len - 1
            /\ as_slice = SubSeq(SvPrevSlice, 1, svPrev.len - 1)
  /\ svOp.name = "truncate" =>
       /\ svLen = Min(svOp.arg, svPrev.len)
       /\ as_slice = SubSeq(SvPrevSlice, 1, svLen)

\* C15 witness: a push of 2 on a vector of capacity 3 holding 1, 2, 2 was
\* refused
C15_Witness ==
  /\ svOp = [name |-> "push", arg |-> 2, ok |-> FALSE, val |-> 0]
  /\ capacity = 3 /\ svLen = 3
  /\ as_slice = <<1, 2, 2>>

\* C16 as stated: once the command exit was entered the shell has returned
C16_ShellExit == shPath = Exit => shPc = "returned"

\* the receiver has just sent the NAK that answers a bad sequence byte or
\* complement byte
NakedFraming == rLog # <<>> /\ Last(rLog) = Ev("nak_num", "w", NAK)

\* C17 as stated: the NAK for a bad sequence or complement byte costs one
\* attempt and the receive goes on with the next attempt (or fails with
\* BrokenPipe when that was the last attempt)
C17_FramingRetryable ==
  NakedFraming =>
    \/ rPc = "first" /\ rTries >= 1
    \/ rPc = "done" /\ rRes = "BrokenPipe"

\* C17 (amended): when the sequence byte read after SOH differs from the
\* expected sequence, or the complement byte is not the complement of the
\* expected sequence, the receiver sends NAK and receive returns InvalidData
\* at once: the NAK is the last thing it does on the transport, no attempt
\* is consumed, and the packet is read on only when both bytes match
C17_FramingFatal ==
  /\ \A i \in DOMAIN rLog :
       rLog[i].at = "nak_num" =>
         /\ rLog[i] = Ev("nak_num", "w", NAK)
         /\ i = Len(rLog) /\ i >= 3
         /\ rLog[i - 2].at = "num" /\ rLog[i - 1].at = "neg"
         /\ PacketNumberMismatch(rLog[i - 2].v, rLog[i - 1].v, rPacket)
         /\ rPc = "done" /\ rRes = "InvalidData"
         /\ rTries = Cardinality(RxCkFailsNow)
  /\ rPc = "nak_num" =>
       PacketNumberMismatch(rLog[Len(rLog) - 1].v, Last(rLog).v, rPacket)
  /\ rPc = "data" =>
       /\ rLog[Len(rLog) - 1] = Ev("num", "r", rPacket)
       /\ Last(rLog) = Ev("neg", "r", Complement(rPacket))

\* C17 witness: the second packet came with its sequence byte intact and a
\* bad complement byte, and receive has returned InvalidData after the NAK
C17_Witness ==
  /\ NakedFraming /\ rPc = "done" /\ rRes = "InvalidData"
  /\ rPacket = 2
  /\ rLog[Len(rLog) - 2].v = rPacket
  /\ rLog[Len(rLog) - 1].v # Complement(rPacket)

\* the positions of a log whose entry was made at a place of the code
At(log, place) == {i \in DOMAIN log : log[i].at = place}

\* the transmitter has just read a reply to the first EOT that is neither
\* NAK nor CAN
BadEotReply ==
  /\ tLog # <<>> /\ Last(tLog).at = "eot1r" /\ Last(tLog).op = "r"
  /\ Last(tLog).v \notin {NAK, CAN}

\* C18 as stated: a reply to the first EOT that is neither NAK nor CAN makes
\* the transmitter attempt the termination again (or fail with BrokenPipe
\* when the attempts are used up)
C18_TerminationRetry ==
  BadEotReply =>
    \/ tPc = "eot1"
    \/ tPc = "done" /\ tRes = "BrokenPipe"

\* C18 (amended): the termination exchange is attempted once: the first EOT
\* is written at most once, and a reply to it other than NAK is the last
\* thing the transmitter does on the transport, transmit having returned
\* InvalidData (ConnectionAborted for CAN) with no attempt counted
C18_TerminationFatal ==
  /\ Cardinality(At(tLog, "eot1")) <= 1
  /\ Cardinality(At(tLog, "eot2")) <= 1
  /\ \A i \in At(tLog, "eot1r") :
       tLog[i].v # NAK =>
         /\ i = Len(tLog)
         /\ tPc = "done"
         /\ tRes = IF tLog[i].v = CAN THEN "ConnectionAborted" ELSE "InvalidData"
         /\ tTries = 0

\* C18 witness: after a packet was sent and acknowledged the reply to the
\* first EOT was ACK, and transmit has returned InvalidData
C18_Witness ==
  /\ BadEotReply /\ Last(tLog).v = ACK
  /\ plen = 3 /\ tWritten = 3
  /\ tPc = "done" /\ tRes = "InvalidData"

\* C19 as stated: a first byte of an exchange that is none of SOH, EOT and
\* CAN is answered at once: the receiver does not wait for another byte, the
\* next thing it does on the transport is to write NAK, and receive returns
\* InvalidData
C19_UnexpectedFirstByte ==
  \A i \in At(rLog, "first") :
    (rLog[i].op = "r" /\ rLog[i].v \notin {SOH, EOT, CAN}) =>
      /\ ~(rPc = "other" /\ t2r = <<>>)
      /\ i < Len(rLog) => rLog[i + 1] = Ev("nak_other", "w", NAK)
      /\ rPc = "done" => rRes = "InvalidData"

\* the replies to data packets that were NAK
TxNakReplies == {i \in At(tLog, "reply") : tLog[i] = Ev("reply", "r", NAK)}

\* after a NAK the transmitter reports no Packet event, and what it writes
\* next is, entry for entry, the attempt it wrote before the NAK: SOH, the
\* same sequence byte and complement, the same block and checksum
C20_SameAttempt ==
  \A i \in TxNakReplies :
    /\ i >= 6
    /\ \A k \in 1..5 : i + k <= Len(tLog) => tLog[i + k] = tLog[i + k - 6]
    /\ i = Len(tLog) => tPc \in {"soh", "done"}

\* the step in which the transmitter reads NAK as the reply to a data packet
TxReadsNak ==
  /\ tPc = "reply"
  /\ Len(tLog') = Len(tLog) + 1
  /\ tLog'[Len(tLog')] = Ev("reply", "r", NAK)

\* the step of a NAK leaves the sequence counter, the bytes written, the
\* position in the source and the packet buffer as they are; the counter and
\* the total change only in the step that reads ACK, by one and by the bytes
\* the packet took from the source
C20_Step ==
  /\ TxReadsNak =>
       /\ tPacket' = tPacket /\ tWritten' = tWritten /\ tPos' = tPos
       /\ tBuf' = tBuf /\ tN' = tN
       /\ tPc' \in {"soh", "done"}
       /\ tPc' = "done" => tRes' = "BrokenPipe"
  /\ (tPacket' # tPacket \/ tWritten' # tWritten) =>
       /\ tPc = "reply"
       /\ tLog' = tLog \o <<Ev("reply", "r", ACK), Ev("reply", "Packet", tPacket')>>
       /\ tPacket' = WrappingAdd1(tPacket)
       /\ tWritten' = tWritten + tN

\* C20: a NAK in reply to a data packet leaves the transmitter's sequence
\* counter, its count of bytes written and its position in the data source
\* unchanged and reports no Packet event, and the next attempt is the same
\* 132 bytes; only an ACK advances the counter and adds the packet's source
\* bytes to the total
C20_NakUnchanged == [](C20_SameAttempt) /\ [][C20_Step]_vars

\* C20 witness: the second packet of a payload was answered with NAK and
\* sent again in full, and the transmitter waits for the reply
C20_Witness ==
  /\ tPc = "reply" /\ tTries = 1 /\ tPacket = 2 /\ tWritten = PacketSize
  /\ Len(tLog) - 5 \in TxNakReplies
  /\ Last(tLog).at = "cksum"

\* the start bytes the receiver read as the first byte of an exchange, and
\* the rank (1, 2, ...) of the Packet event at position i of its log
RxSohReads == {i \in At(rLog, "first") : rLog[i] = Ev("first", "r", SOH)}
RxPacketRank(i) == Cardinality({j \in Ops(rLog, "Packet") : j <= i})

\* C21: the receiver reports Started at most once, right after the first
\* start byte it reads and at no later start byte, so before every Packet
\* event; a Packet event comes right after the ACK the receiver wrote for a
\* packet whose sequence byte, complement and checksum it found right, and
\* carries the sequence byte of that packet, which is the rank of the event
\* modulo 256 (1 for the first accepted packet); the NAK for a failed check
\* is followed by no Packet event
C21_ReceiveProgress ==
  /\ Cardinality(Ops(rLog, "Started")) <= 1
  /\ \A i \in RxSohReads :
       (\A j \in RxSohReads : i <= j) <=>
         (i < Len(rLog) /\ rLog[i + 1] = Ev("first", "Started", 0))
  /\ \A i \in Ops(rLog, "Started") : i - 1 \in RxSohReads
  /\ \A i \in Ops(rLog, "Packet") :
       /\ i > 6 /\ \E j \in Ops(rLog, "Started") : j < i
       /\ rLog[i - 1] = Ev("ack", "w", ACK)
       /\ rLog[i - 2].at = "cksum" /\ rLog[i - 3].at = "data"
       /\ rLog[i - 4] = Ev("neg", "r", Complement(rLog[i].v))
       /\ rLog[i - 5] = Ev("num", "r", rLog[i].v)
       /\ rLog[i].v = RxPacketRank(i) % Byte
  /\ rPc = "ack" => Last(rLog) = Ev("cksum", "r", get_checksum(rBuf))
  /\ rPc = "nak_ck" => Last(rLog).v # get_checksum(rBuf)
  /\ \A i \in At(rLog, "nak_ck") \cup At(rLog, "nak_num") :
       i < Len(rLog) => rLog[i + 1].op # "Packet"
  /\ Cardinality(Ops(rLog, "Packet")) * PacketSize = rReceived

\* C21 witness: the receiver reported Started, Packet(1), then met a packet
\* with a bad checksum, which it answered with NAK, and reported Packet(2)
\* for the attempt that followed
C21_Witness ==
  /\ Cardinality(Ops(rLog, "Packet")) = 2
  /\ Last(rLog) = Ev("acked", "Packet", 2)
  /\ At(rLog, "nak_ck") # {}
  /\ rLog[3] = Ev("first", "Started", 0)

\* the ACK of the receiver for a data packet is on its way to the
\* transmitter (the ACK for the second EOT is the last step of the receiver)
AckInFlight == rPc # "done" /\ \E i \in DOMAIN r2t : r2t[i] = ACK

\* the receiver wrote ACK and has not yet advanced its sequence number
RxAckWritten == rPc = "acked"

\* C22 as stated: in every state the expected sequence number of the
\* receiver equals the sequence number of the transmitter, or is one ahead of
\* it modulo 256 while the ACK of the receiver is on its way
C22_LockStep ==
  \/ rPacket = tPacket
  \/ rPacket = WrappingAdd1(tPacket) /\ AckInFlight

\* C22: with payload and checksum bytes corrupted in transit, the two
\* sequence numbers are equal, or the receiver is one ahead modulo 256 while
\* its ACK is on its way (it advanced after writing the ACK, the transmitter
\* has not read it), or the transmitter is one ahead modulo 256 (it read the
\* ACK and advanced before the receiver, which advances after writing the
\* ACK, did); the sink holds whole blocks, block k of the sink is packet k of
\* the padded payload but for the byte the transport may corrupt, so no
\* packet is in the sink twice and none is skipped, and the sink is at most
\* one block behind the count of the receiver
C22_LockStepEitherWay ==
  /\ \/ rPacket = tPacket
     \/ rPacket = WrappingAdd1(tPacket) /\ AckInFlight /\ ~RxAckWritten
     \/ tPacket = WrappingAdd1(rPacket) /\ RxAckWritten /\ ~AckInFlight
  /\ (AckInFlight /\ ~RxAckWritten) => rPacket = WrappingAdd1(tPacket)
  /\ Len(sink) % PacketSize = 0
  /\ Len(sink) <= PaddedLen
  /\ \A k \in 1..(Len(sink) \div PacketSize) : \A i \in 2..PacketSize :
       sink[(k - 1) * PacketSize + i] = PaddedBlock(k)[i]
  /\ Len(sink) = IF rPc = "sink" THEN rReceived - PacketSize ELSE rReceived
  /\ rPc = "done" => rRes = "Ok" /\ Len(sink) = PaddedLen

\* C22 witness: after a packet that was answered with NAK for its checksum
\* and sent again, the transmitter read the ACK of the second packet and
\* advanced while the receiver had not yet advanced
C22_Witness ==
  /\ tPacket = 3 /\ rPacket = 2 /\ RxAckWritten
  /\ At(rLog, "nak_ck") # {}
  /\ Len(sink) = PacketSize

\* the ACKs the receiver wrote for data packets, as places of its log
RxAcks == {i \in At(rLog, "ack") : rLog[i].op = "w"}

\* C23 as stated: at every point of a receive the count of the receiver is
\* 128 times the number of packets it has acknowledged
C23_CountIsAcked == rReceived = PacketSize * Cardinality(RxAcks)

\* C23: the count of the receiver is 128 times the number of packets it has
\* acknowledged, but between writing an ACK and adding the packet to the
\* count, where it is 128 short; the sink is written only in whole blocks of
\* 128 bytes, each one the block read for a packet and written after the ACK
\* for this packet, the report of the packet and the addition to the count;
\* bytes in the sink are the count but for the block about to be written;
\* on a successful return the sink holds as many bytes as the count returned
C23_ByteAccounting ==
  /\ rReceived = PacketSize * (Cardinality(RxAcks) - IF RxAckWritten THEN 1 ELSE 0)
  /\ Len(sink) = PacketSize * Cardinality(Ops(rLog, "sink"))
  /\ Cardinality(Ops(rLog, "sink")) <= Cardinality(RxAcks)
  /\ \A i \in Ops(rLog, "sink") :
       /\ i > 4
       /\ rLog[i - 1].op = "Packet"
       /\ rLog[i - 2] = Ev("ack", "w", ACK)
       /\ rLog[i - 4].op = "rb"
       /\ LET k == Cardinality({j \in Ops(rLog, "sink") : j <= i})
          IN  SubSeq(sink, (k - 1) * PacketSize + 1, k * PacketSize) = rLog[i - 4].v
  /\ Len(sink) = IF rPc = "sink" THEN rReceived - PacketSize ELSE rReceived
  /\ (rPc = "done" /\ rRes = "Ok") => Len(sink) = rReceived

\* C23 witness: a receive returned with success a count of 256 with 256
\* bytes in the sink, after a packet it answered with NAK
C23_Witness ==
  /\ rPc = "done" /\ rRes = "Ok"
  /\ rReceived = 2 * PacketSize /\ Len(sink) = 2 * PacketSize
  /\ Cardinality(RxAcks) = 2
  /\ At(rLog, "nak_ck") # {}

\* C24: the attempt counter of each side counts the failed attempts of the
\* packet in hand and no others (the NAKs the transmitter read, the checksum
\* mismatches the receiver found, since the last acknowledged packet), so it
\* is 0 when the first attempt of a packet starts; a side returns BrokenPipe
\* only when 10 attempts of one and the same packet failed one after the
\* other; a transfer in which no packet failed 10 times does not stop before
\* both calls returned success with the whole padded payload in the sink,
\* however many attempts failed in all
C24_AttemptCounter ==
  /\ tPc # "read" => tTries = Cardinality(TxNaksNow)
  /\ rPc \notin {"sink", "nak_ck"} => rTries = Cardinality(RxCkFailsNow)
  /\ rPc = "nak_ck" => rTries = Cardinality(RxCkFailsNow) - 1
  /\ (tPc = "soh" /\ TxAttemptsNow = {}) => tTries = 0
  /\ (rPc = "first" /\ RxAttemptsNow = {}) => rTries = 0
  /\ tRes = "BrokenPipe" =>
       /\ Cardinality(TxNaksNow) = 10 /\ TxNaksNow = TxAttemptsNow
       /\ \A i \in TxNaksNow : tLog[i - 2] = Ev("seq", "w", tPacket)
  /\ rRes = "BrokenPipe" =>
       /\ Cardinality(RxCkFailsNow) = 10 /\ RxCkFailsNow = RxAttemptsNow
       /\ \A i \in RxCkFailsNow : rLog[i - 2] = Ev("num", "r", rPacket)
  /\ Stopped => BothDone
  /\ (BothDone /\ Cardinality(TxNaksNow) < 10) =>
       /\ tRes = "Ok" /\ rRes = "Ok"
       /\ sink = PaddedP /\ tWritten = plen /\ rReceived = PaddedLen

\* C24 witness: a transfer of two packets returned success on both sides
\* after 18 failed attempts, 9 of each packet
C24_Witness ==
  /\ BothDone /\ tRes = "Ok" /\ rRes = "Ok"
  /\ Packets = 2
  /\ Cardinality(RxCkFails) = 18
  /\ Cardinality({i \in RxCkFails : rLog[i - 2].v = 1}) = 9
  /\ Cardinality({i \in RxCkFails : rLog[i - 2].v = 2}) = 9

\* C25: when every read of the transport returns a byte or fails with
\* TimedOut, the transmit call and the receive call both return, with
\* success or with a fault, and stay returned, whatever byte is corrupted and
\* also when the other side returned first
C25_Termination == <>[]BothDone

\* C25 witness: the receiver gave up on a corrupted byte of the second
\* packet and returned a fault, and the transmitter, left waiting for a reply
\* that never comes, returned TimedOut
C25_Witness ==
  /\ BothDone
  /\ rRes \in {"InvalidData", "ConnectionAborted"}
  /\ tRes = "TimedOut"
  /\ injected > 0
  /\ tStarted /\ tPacket = 2

====
